---- MODULE Spec2Model ----
(***************************************************************************)
(* Model of the resume parsing pipeline of convex/resumeParser.ts.         *)
(*                                                                         *)
(* This part models ResumeParser.validateAndCleanData, the normalizer that *)
(* repairs whatever JSON.parse produced from the model's answer.  The      *)
(* function is written against `data: any`, so the model carries the       *)
(* JavaScript semantics the code relies on: truthiness, property reads and *)
(* writes on primitives, arrays and objects, the `in` operator, typeof and *)
(* Array.isArray, and the TypeError each of them can throw.                *)
(*                                                                         *)
(* A JSON value is a tagged record.  Strings are sequences of one-letter   *)
(* strings, so that formatting is computed letter by letter.  An array     *)
(* carries its elements (a) and the named properties assigned to it (p),   *)
(* an object its properties (p).                                           *)
(***************************************************************************)
EXTENDS Integers, Sequences, FiniteSets, TLC

VARIABLES
    candidate,  \* the value handed to validateAndCleanData (JSON.parse's result)
    now,        \* the clock read by the first call: [month: 0..11, year]
    now2,       \* the clock read by the second call
    pc,         \* "start" | "normalized" | "renormalized"
    out,        \* outcome of the first call: [raised, v]
    out2,       \* outcome of the call on the first call's result
    fileType,   \* parseResume's declared type, a string
    buffer,     \* parseResume's document: what each decoder makes of its bytes
    resumeText, \* the text extractText resolved with
    requests,   \* the requests sent to the model service, in order
    reply,      \* what the model service answered to the last request
    result,     \* parseResume's outcome: pending, a record, or an error
    stages,     \* the stages parseResume has entered, in order
    procs,      \* the uploadAndParseResume, importResumeData and client calls
                \* under way on the deployment, each with its own locals
    db          \* the tables header, education, experience, projects

\* the state of the normalizer alone
normVars == <<candidate, now, now2, pc, out, out2>>

\* the rest of the state of a parseResume call
callVars == <<fileType, buffer, resumeText, requests, reply, result, stages>>

\* the deployment: the calls of resumeFunctions under way and the database
storeVars == <<procs, db>>

vars == <<candidate, now, now2, pc, out, out2,
          fileType, buffer, resumeText, requests, reply, result, stages,
          procs, db>>

-----------------------------------------------------------------------------
(* Bounds of the model. *)

\* longest experience / projects list among the candidates
MaxEntries == 2

-----------------------------------------------------------------------------
(* JSON values and the JavaScript operations the normalizer uses on them. *)

JUndef == [t |-> "undef"]
JNull == [t |-> "null"]
JBool(b) == [t |-> "bool", b |-> b]
JNum(n) == [t |-> "num", n |-> n]
JStr(s) == [t |-> "str", s |-> s]
JArr(a) == [t |-> "arr", a |-> a, p |-> <<>>]
JObj(p) == [t |-> "obj", p |-> p]

EmptyStr == JStr(<<>>)
EmptyArr == JArr(<<>>)
EmptyObj == JObj(<<>>)

\* typeof v === 'object' && v !== null: the values `in` accepts and that take
\* property assignments.
IsObject(v) == v.t \in {"arr", "obj"}

\* typeof v === 'object' (true of null as well)
TypeofObject(v) == v.t \in {"null", "arr", "obj"}

\* Array.isArray(v)
IsArray(v) == v.t = "arr"

\* ToBoolean(v), as in `!data.header`
Truthy(v) ==
    CASE v.t = "bool" -> v.b
      [] v.t = "num" -> v.n # 0
      [] v.t = "str" -> v.s # <<>>
      [] v.t \in {"arr", "obj"} -> TRUE
      [] OTHER -> FALSE

\* the property key of array index i
IndexKey(i) == ToString(i)

\* the 1-based positions of a sequence that the key names as an index
KeyPositions(key, len) == {i \in 1..len : IndexKey(i - 1) = key}

\* v[key] for a v that is neither null nor undefined
Get(v, key) ==
    CASE v.t = "obj" -> IF key \in DOMAIN v.p THEN v.p[key] ELSE JUndef
      [] v.t = "arr" ->
            IF key = "length" THEN JNum(Len(v.a))
            ELSE IF KeyPositions(key, Len(v.a)) # {}
                 THEN v.a[CHOOSE i \in KeyPositions(key, Len(v.a)) : TRUE]
            ELSE IF key \in DOMAIN v.p THEN v.p[key]
            ELSE JUndef
      [] v.t = "str" ->
            IF key = "length" THEN JNum(Len(v.s))
            ELSE IF KeyPositions(key, Len(v.s)) # {}
                 THEN JStr(<<v.s[CHOOSE i \in KeyPositions(key, Len(v.s)) : TRUE]>>)
            ELSE JUndef
      [] OTHER -> JUndef

\* key in v, for an object or array v (none of the field names the normalizer
\* looks up is inherited from Object.prototype or Array.prototype)
HasProperty(key, v) ==
    \/ key \in DOMAIN v.p
    \/ v.t = "arr" /\ (key = "length" \/ KeyPositions(key, Len(v.a)) # {})

\* v[key] = x, for an object or array v
Put(v, key, x) ==
    IF v.t = "arr" /\ KeyPositions(key, Len(v.a)) # {}
    THEN [v EXCEPT !.a[CHOOSE i \in KeyPositions(key, Len(v.a)) : TRUE] = x]
    ELSE [v EXCEPT !.p = (key :> x) @@ v.p]

\* outcomes of a call: the returned value, or a thrown TypeError
Returned(v) == [raised |-> FALSE, v |-> v]
Raised == [raised |-> TRUE, v |-> JUndef]

-----------------------------------------------------------------------------
(* ResumeParser.validateAndCleanData *)

FullTime == <<"F", "u", "l", "l", "-", "t", "i", "m", "e">>
CoOp == <<"C", "o", "-", "o", "p">>

\* the five employment types the prompt allows
EmploymentTypes ==
    { FullTime,
      <<"P", "a", "r", "t", "-", "t", "i", "m", "e">>,
      <<"I", "n", "t", "e", "r", "n", "s", "h", "i", "p">>,
      CoOp,
      <<"V", "o", "l", "u", "n", "t", "e", "e", "r">> }

Range(seq) == {seq[i] : i \in 1..Len(seq)}

headerFields ==
    <<"email", "github", "lastUpdated", "linkedin", "location",
      "name", "phone", "skills", "tagline", "website">>

eduFields ==
    <<"coursework", "degree", "endDate", "gpa", "major", "startDate", "university">>

expFields ==
    <<"description", "endDate", "position", "location", "employmentType",
      "startDate", "title", "url">>

projFields ==
    <<"award", "date", "description", "endDate", "event", "organization",
      "title", "url">>

\* what a missing header field is set to
HeaderDefault(field) == IF field = "skills" THEN EmptyObj ELSE EmptyStr

\* what a missing education field is set to
EducationDefault(field) == IF field = "coursework" THEN EmptyArr ELSE EmptyStr

\* what a missing field of an experience or project entry is set to
EntryDefault(field) == EmptyStr

\* if (!data[key]) data[key] = dflt;  on the outcome so far
EnsureSection(r, key, dflt) ==
    IF r.raised THEN r
    ELSE IF r.v.t \in {"null", "undef"} THEN Raised        \* data.header of null
    ELSE IF Truthy(Get(r.v, key)) THEN r
    ELSE IF IsObject(r.v) THEN Returned(Put(r.v, key, dflt))
    ELSE Raised                                             \* assignment to a primitive

\* !(field in obj)
MissingField(field, obj) == ~HasProperty(field, obj)

\* for (const field of fields) if (!(field in obj)) obj[field] = defaults[field];
\* for an object or array obj
RECURSIVE Backfill(_, _, _)
Backfill(obj, fields, defaults) ==
    IF fields = <<>> THEN obj
    ELSE LET field == Head(fields)
             next == IF MissingField(field, obj)
                     THEN Put(obj, field, defaults[field])
                     ELSE obj
         IN  Backfill(next, Tail(fields), defaults)

\* NeedsSkillsReset without its Array.isArray test
NeedsSkillsReset_TypeofOnly(skills) == ~TypeofObject(skills)

\* typeof skills !== 'object' || Array.isArray(skills)
NeedsSkillsReset(skills) == ~TypeofObject(skills) \/ IsArray(skills)

\* NeedsCourseworkReset written with typeof, as the skills check is
NeedsCourseworkReset_Typeof(coursework) == ~TypeofObject(coursework)

\* !Array.isArray(coursework)
NeedsCourseworkReset(coursework) == ~IsArray(coursework)

\* the header loop and the skills check
CleanHeader(r) ==
    IF r.raised THEN r
    ELSE LET header == Get(r.v, "header")
         IN  IF ~IsObject(header) THEN Raised               \* 'email' in a primitive
             ELSE LET filled == Backfill(header, headerFields,
                                         [f \in Range(headerFields) |-> HeaderDefault(f)])
                      fixed == IF NeedsSkillsReset(Get(filled, "skills"))
                               THEN Put(filled, "skills", EmptyObj)
                               ELSE filled
                  IN  Returned(Put(r.v, "header", fixed))

\* the education loop and the coursework check
CleanEducation(r) ==
    IF r.raised THEN r
    ELSE LET education == Get(r.v, "education")
         IN  IF ~IsObject(education) THEN Raised
             ELSE LET filled == Backfill(education, eduFields,
                                         [f \in Range(eduFields) |-> EducationDefault(f)])
                      fixed == IF NeedsCourseworkReset(Get(filled, "coursework"))
                               THEN Put(filled, "coursework", EmptyArr)
                               ELSE filled
                  IN  Returned(Put(r.v, "education", fixed))

\* the number of iterations of `for (i = 0; i < list.length; i++)`: the
\* comparison is false for an undefined length; a length that is neither a
\* number nor a boolean is not converted here
LoopCount(list) ==
    LET length == Get(list, "length")
    IN  CASE length.t = "num" -> length.n
          [] length.t = "bool" -> IF length.b THEN 1 ELSE 0
          [] OTHER -> 0

\* CleanExperienceEntry that also forces an employmentType outside the five
\* values to "Full-time"
CleanExperienceEntry_Coerce(entry) ==
    LET filled == Backfill(entry, expFields, [f \in Range(expFields) |-> EmptyStr])
        type == Get(filled, "employmentType")
    IN  IF type.t = "str" /\ type.s \in EmploymentTypes THEN filled
        ELSE Put(filled, "employmentType", JStr(FullTime))

\* the inner loop on one experience entry
CleanExperienceEntry(entry) ==
    Backfill(entry, expFields, [f \in Range(expFields) |-> EntryDefault(f)])

\* CleanProjectEntry that also wraps a string award into a list
CleanProjectEntry_AwardAsList(entry) ==
    LET filled == Backfill(entry, projFields, [f \in Range(projFields) |-> EmptyStr])
        award == Get(filled, "award")
    IN  IF award.t = "str" /\ award.s # <<>>
        THEN Put(filled, "award", JArr(<<award>>))
        ELSE filled

\* the inner loop on one project entry
CleanProjectEntry(entry) ==
    Backfill(entry, projFields, [f \in Range(projFields) |-> EntryDefault(f)])

\* the outer loop over data.experience, from index i on
RECURSIVE CleanExperienceFrom(_, _)
CleanExperienceFrom(list, i) ==
    IF i >= LoopCount(list) THEN Returned(list)
    ELSE LET entry == Get(list, IndexKey(i))
         IN  IF ~IsObject(entry) THEN Raised               \* field in null, in "a", ...
             ELSE CleanExperienceFrom(Put(list, IndexKey(i), CleanExperienceEntry(entry)),
                                      i + 1)

\* the outer loop over data.projects, from index i on
RECURSIVE CleanProjectsFrom(_, _)
CleanProjectsFrom(list, i) ==
    IF i >= LoopCount(list) THEN Returned(list)
    ELSE LET entry == Get(list, IndexKey(i))
         IN  IF ~IsObject(entry) THEN Raised
             ELSE CleanProjectsFrom(Put(list, IndexKey(i), CleanProjectEntry(entry)),
                                    i + 1)

CleanExperience(r) ==
    IF r.raised THEN r
    ELSE LET cleaned == CleanExperienceFrom(Get(r.v, "experience"), 0)
         IN  IF cleaned.raised THEN Raised
             ELSE Returned(Put(r.v, "experience", cleaned.v))

CleanProjects(r) ==
    IF r.raised THEN r
    ELSE LET cleaned == CleanProjectsFrom(Get(r.v, "projects"), 0)
         IN  IF cleaned.raised THEN Raised
             ELSE Returned(Put(r.v, "projects", cleaned.v))

DigitChars == <<"0", "1", "2", "3", "4", "5", "6", "7", "8", "9">>

\* String(n), n >= 0
RECURSIVE ToDigits(_)
ToDigits(n) ==
    IF n < 10 THEN <<DigitChars[n + 1]>>
    ELSE ToDigits(n \div 10) \o <<DigitChars[(n % 10) + 1]>>

\* s.padStart(width, fill), fill one letter
RECURSIVE PadStart(_, _, _)
PadStart(s, width, fill) ==
    IF Len(s) >= width THEN s ELSE PadStart(<<fill>> \o s, width, fill)

\* FormatLastUpdated without the + 1 on getMonth()
FormatLastUpdated_ZeroBased(clock) ==
    PadStart(ToDigits(clock.month), 2, "0") \o <<"/">> \o ToDigits(clock.year)

\* `${String(now.getMonth() + 1).padStart(2, '0')}/${now.getFullYear()}`
FormatLastUpdated(clock) ==
    PadStart(ToDigits(clock.month + 1), 2, "0") \o <<"/">> \o ToDigits(clock.year)

\* StampHeader that appends the stamp to the text already there
StampHeader_Append(header, clock) ==
    LET old == Get(header, "lastUpdated")
    IN  Put(header, "lastUpdated",
            JStr((IF old.t = "str" THEN old.s ELSE <<>>) \o FormatLastUpdated(clock)))

\* header.lastUpdated = <stamp>, on the header
StampHeader(header, clock) ==
    Put(header, "lastUpdated", JStr(FormatLastUpdated(clock)))

\* data.header.lastUpdated = ...
StampLastUpdated(r, clock) ==
    IF r.raised THEN r
    ELSE Returned(Put(r.v, "header", StampHeader(Get(r.v, "header"), clock)))

validateAndCleanData(data, clock) ==
    LET r1 == EnsureSection(Returned(data), "header", EmptyObj)
        r2 == EnsureSection(r1, "education", EmptyObj)
        r3 == EnsureSection(r2, "experience", EmptyArr)
        r4 == EnsureSection(r3, "projects", EmptyArr)
    IN  StampLastUpdated(
            CleanProjects(CleanExperience(CleanEducation(CleanHeader(r4)))), clock)

-----------------------------------------------------------------------------
(* The candidates: values JSON.parse can hand to validateAndCleanData. *)

A == <<"a">>
B == <<"b">>
Research == <<"R", "e", "s", "e", "a", "r", "c", "h">>

\* the sequences over S of length at most n
SeqsUpTo(S, n) == UNION {[1..k -> S] : k \in 0..n}

\* props with key set to value, or left alone when the key is to be absent
WithKey(props, key, value) ==
    IF value = JUndef THEN props ELSE (key :> value) @@ props

\* what the model may answer under header.skills (JUndef: the key is absent)
SkillsVals ==
    { JUndef, JNull, JStr(A), EmptyStr, JNum(5), JBool(TRUE),
      JArr(<<JStr(A), JStr(B)>>), EmptyObj,
      JObj([Languages |-> JArr(<<JStr(A)>>)]),
      JObj([Languages |-> JStr(A), Tools |-> JArr(<<JStr(B)>>)]) }

HeaderBases ==
    { <<>>, [name |-> JStr(A), email |-> JNull, lastUpdated |-> JStr(B)] }

HeaderVals ==
    { JUndef, JNull, EmptyStr, JStr(A), JNum(1), EmptyArr, JArr(<<JStr(A)>>) }
    \cup { JObj(WithKey(base, "skills", skills)) :
             base \in HeaderBases, skills \in SkillsVals }

CourseworkVals ==
    { JUndef, JNull, JStr(A), JNum(5), EmptyObj, EmptyArr,
      JArr(<<JStr(A), JStr(B)>>) }

EducationBases ==
    { <<>>, [degree |-> JStr(A), gpa |-> JNull] }

EducationVals ==
    { JUndef, JNull, JStr(A), JBool(TRUE), EmptyArr }
    \cup { JObj(WithKey(base, "coursework", coursework)) :
             base \in EducationBases, coursework \in CourseworkVals }

ExperienceEntries ==
    { JNull,
      JObj([title |-> JStr(A), employmentType |-> JStr(Research)]),
      JObj([position |-> JStr(B), url |-> JNull,
            employmentType |-> JStr(CoOp)]) }

ExperienceVals ==
    { JUndef, JNull, JNum(5), JStr(A), EmptyObj,
      JObj(("length" :> JNum(1)) @@ ("0" :> JObj([title |-> JStr(A)]))) }
    \cup { JArr(entries) : entries \in SeqsUpTo(ExperienceEntries, MaxEntries) }

ProjectEntries ==
    { JStr(A),
      JObj([award |-> JStr(A), title |-> JStr(B)]),
      JObj([award |-> JArr(<<JStr(A), JStr(B)>>), date |-> JNull]) }

ProjectsVals ==
    { JUndef, JNum(0), JBool(TRUE), JObj([title |-> JStr(A)]) }
    \cup { JArr(entries) : entries \in SeqsUpTo(ProjectEntries, MaxEntries) }

\* per section: the key absent, or one well-formed value
CoreHeader ==
    { JUndef, JObj([name |-> JStr(A), skills |-> JObj([Languages |-> JArr(<<JStr(A)>>)])]) }
CoreEducation ==
    { JUndef, JObj([degree |-> JStr(A), coursework |-> JArr(<<JStr(A)>>)]) }
CoreExperience ==
    { JUndef, JArr(<<JObj([title |-> JStr(A)])>>) }
CoreProjects ==
    { JUndef, JArr(<<JObj([title |-> JStr(B), award |-> JStr(A)])>>) }

\* one section ranges over all its values, the others over their core values
SectionChoices ==
    (HeaderVals \X CoreEducation \X CoreExperience \X CoreProjects)
    \cup (CoreHeader \X EducationVals \X CoreExperience \X CoreProjects)
    \cup (CoreHeader \X CoreEducation \X ExperienceVals \X CoreProjects)
    \cup (CoreHeader \X CoreEducation \X CoreExperience \X ProjectsVals)

\* the object with the four sections (a JUndef section has no key)
DataOf(c) ==
    JObj(WithKey(WithKey(WithKey(WithKey(<<>>, "header", c[1]), "education", c[2]),
                         "experience", c[3]), "projects", c[4]))

\* JSON documents that are not objects
TopLevelVals ==
    { JNull, JNum(5), JStr(A), JBool(FALSE), EmptyArr, JArr(<<JNum(1)>>) }

Candidates == TopLevelVals \cup { DataOf(c) : c \in SectionChoices }

\* the processing times: every month of a year
BaseYear == 2025
Clocks == [month : 0..11, year : {BaseYear}]

\* one month later
NextMonth(clock) ==
    IF clock.month = 11 THEN [month |-> 0, year |-> clock.year + 1]
    ELSE [clock EXCEPT !.month = @ + 1]

-----------------------------------------------------------------------------
(* The normalizer as a state machine: a candidate is normalized, and the   *)
(* record returned may be normalized once more.                            *)

\* no error
NoError == [kind |-> "none", detail |-> <<>>, cause |-> "none"]

\* no reply yet
NoReply == [kind |-> "none", text |-> <<>>]

\* no document
NoBuffer == [kind |-> "none", pages |-> <<>>, value |-> <<>>]

\* parseResume has not settled
Pending == [status |-> "pending", v |-> JUndef, error |-> NoError]

\* the four tables, without a document
EmptyDb == [header |-> <<>>, education |-> <<>>, experience |-> <<>>, projects |-> <<>>]

\* no parseResume call is under way
NoCall ==
    /\ fileType = <<>>
    /\ buffer = NoBuffer
    /\ resumeText = <<>>
    /\ requests = <<>>
    /\ reply = NoReply
    /\ result = Pending
    /\ stages = <<>>

NormInit ==
    /\ NoCall
    /\ procs = <<>>
    /\ db = EmptyDb
    /\ candidate \in Candidates
    /\ now \in Clocks
    /\ now2 = now
    /\ pc = "start"
    /\ out = Raised
    /\ out2 = Raised

\* validateAndCleanData(candidate)
Normalize ==
    /\ pc = "start"
    /\ out' = validateAndCleanData(candidate, now)
    /\ pc' = "normalized"
    /\ UNCHANGED <<candidate, now, now2, out2>>
    /\ UNCHANGED callVars
    /\ UNCHANGED storeVars

\* validateAndCleanData on the record the first call returned, with the clock
\* frozen or one month later
Renormalize ==
    /\ pc = "normalized"
    /\ ~out.raised
    /\ \E later \in {now, NextMonth(now)} :
          /\ now2' = later
          /\ out2' = validateAndCleanData(out.v, later)
    /\ pc' = "renormalized"
    /\ UNCHANGED <<candidate, now, out>>
    /\ UNCHANGED callVars
    /\ UNCHANGED storeVars

NormNext == Normalize \/ Renormalize

SpecNormalize == NormInit /\ [][NormNext]_vars

\* the call has returned a record
NormReturned == pc # "start" /\ ~out.raised

-----------------------------------------------------------------------------
(* What the candidate carried and what the call returned. *)

\* candidate[key], JUndef when the candidate has no properties
CandSection(key) == IF IsObject(candidate) THEN Get(candidate, key) ELSE JUndef

\* candidate.header.skills, JUndef when there is no such place
CandSkills ==
    IF IsObject(CandSection("header")) THEN Get(CandSection("header"), "skills")
    ELSE JUndef

OutHeader == Get(out.v, "header")
OutEducation == Get(out.v, "education")
OutExperience == Get(out.v, "experience")
OutProjects == Get(out.v, "projects")

\* the field is there and holds neither null nor undefined
FieldSet(obj, field) ==
    /\ IsObject(obj)
    /\ HasProperty(field, obj)
    /\ Get(obj, field).t \notin {"null", "undef"}

\* every entry of the list has all the fields set
EntriesSet(list, fields) ==
    IsArray(list) =>
        \A i \in 1..Len(list.a) : \A f \in Range(fields) : FieldSet(list.a[i], f)

\* C1: validateAndCleanData never raises, whatever JSON value it is given, and
\* returns a record with the four sections in shape.
C1_Total ==
    pc # "start" =>
        /\ ~out.raised
        /\ IsObject(OutHeader) /\ IsObject(OutEducation)
        /\ IsArray(OutExperience) /\ IsArray(OutProjects)

\* C2: in the record returned, every canonical field of the header, of the
\* education and of every experience and project entry is present and is
\* neither null nor undefined.
C2_FieldsSet ==
    NormReturned =>
        /\ \A f \in Range(headerFields) : FieldSet(OutHeader, f)
        /\ \A f \in Range(eduFields) : FieldSet(OutEducation, f)
        /\ EntriesSet(OutExperience, expFields)
        /\ EntriesSet(OutProjects, projFields)

\* C3: in the record returned, header.skills is a mapping: not a list, not a
\* scalar, not null.
C3_SkillsIsMapping ==
    NormReturned => Get(OutHeader, "skills").t = "obj"

\* C4: when the candidate's header.skills is a list or a primitive (string,
\* number, boolean), the record returned has header.skills = {}.
C4_MalformedSkillsReset ==
    (NormReturned /\ CandSkills.t \in {"arr", "str", "num", "bool"})
        => Get(OutHeader, "skills") = EmptyObj

\* C4 happens: a record was returned for a candidate whose skills is ["a","b"]
C4_Witness ==
    NormReturned /\ CandSkills = JArr(<<JStr(A), JStr(B)>>)

\* C5: when the candidate's header.skills is an object with a value that is
\* not a list, the record returned has header.skills = {}.
C5_NonListSkillsReset ==
    (/\ NormReturned
     /\ CandSkills.t = "obj"
     /\ \E k \in DOMAIN CandSkills.p : ~IsArray(CandSkills.p[k]))
        => Get(OutHeader, "skills") = EmptyObj

\* the digit a letter stands for, -1 for any other letter
DigitValue(c) ==
    IF \E d \in 0..9 : DigitChars[d + 1] = c
    THEN CHOOSE d \in 0..9 : DigitChars[d + 1] = c
    ELSE -1

\* text reads MM/YYYY for the clock: two digits giving the month in 01..12, a
\* slash, four digits giving the year
IsMonthYear(text, clock) ==
    /\ Len(text) = 7
    /\ text[3] = "/"
    /\ \A i \in {1, 2, 4, 5, 6, 7} : DigitValue(text[i]) >= 0
    /\ 10 * DigitValue(text[1]) + DigitValue(text[2]) = clock.month + 1
    /\ 10 * DigitValue(text[1]) + DigitValue(text[2]) \in 1..12
    /\ 1000 * DigitValue(text[4]) + 100 * DigitValue(text[5])
         + 10 * DigitValue(text[6]) + DigitValue(text[7]) = clock.year

\* header.lastUpdated of a returned record reads MM/YYYY for the clock
Stamped(r, clock) ==
    /\ ~r.raised
    /\ Get(Get(r.v, "header"), "lastUpdated").t = "str"
    /\ IsMonthYear(Get(Get(r.v, "header"), "lastUpdated").s, clock)

\* C6: every record returned carries header.lastUpdated = the processing time
\* as MM/YYYY, whatever the candidate carried there; so does the record of a
\* second call, which found the first call's stamp in the field.
C6_LastUpdatedStamped ==
    /\ NormReturned => Stamped(out, now)
    /\ pc = "renormalized" => Stamped(out2, now2)

\* C6 happens: the candidate carried another lastUpdated, and the month needs
\* its leading zero
C6_Witness ==
    /\ NormReturned
    /\ IsObject(CandSection("header"))
    /\ Get(CandSection("header"), "lastUpdated") = JStr(B)
    /\ now.month + 1 < 10

\* the record with header.lastUpdated blanked
WithoutStamp(v) == Put(v, "header", Put(Get(v, "header"), "lastUpdated", EmptyStr))

\* C7: normalizing a returned record again returns it unchanged but for
\* lastUpdated, and entirely unchanged when the clock is frozen.
C7_Idempotent ==
    pc = "renormalized" =>
        /\ ~out2.raised
        /\ WithoutStamp(out2.v) = WithoutStamp(out.v)
        /\ (now2 = now => out2.v = out.v)

\* C7 happens: a candidate the first call had to repair was normalized twice
\* under a frozen clock
C7_Witness ==
    /\ pc = "renormalized"
    /\ now2 = now
    /\ CandSection("header") = JUndef
    /\ IsArray(CandSection("experience")) /\ Len(CandSection("experience").a) = 2

\* C8: the award of every project entry is returned as it was given, string
\* or list.
C8_AwardUnchanged ==
    (NormReturned /\ IsArray(CandSection("projects"))) =>
        /\ IsArray(OutProjects)
        /\ Len(OutProjects.a) = Len(CandSection("projects").a)
        /\ \A i \in 1..Len(CandSection("projects").a) :
              LET given == CandSection("projects").a[i]
              IN  (IsObject(given) /\ HasProperty("award", given))
                      => Get(OutProjects.a[i], "award") = Get(given, "award")

\* C8 happens: a record was returned for projects holding a string award and a
\* list award
C8_Witness ==
    /\ NormReturned
    /\ IsArray(CandSection("projects"))
    /\ \E i, j \in 1..Len(CandSection("projects").a) :
          /\ Get(CandSection("projects").a[i], "award") = JStr(A)
          /\ Get(CandSection("projects").a[j], "award") = JArr(<<JStr(A), JStr(B)>>)

\* C9: education.coursework of the record returned is a list: the candidate's
\* list when it carried one, [] when the key was absent or held anything else;
\* every other education field the candidate lacked is "".
C9_CourseworkIsList ==
    NormReturned =>
        LET given == CandSection("education")
            had(f) == IsObject(given) /\ HasProperty(f, given)
        IN  /\ IsArray(Get(OutEducation, "coursework"))
            /\ Get(OutEducation, "coursework") =
                  IF had("coursework") /\ IsArray(Get(given, "coursework"))
                  THEN Get(given, "coursework")
                  ELSE EmptyArr
            /\ \A f \in Range(eduFields) \ {"coursework"} :
                  Get(OutEducation, f) = IF had(f) THEN Get(given, f) ELSE EmptyStr

\* C9 happens: a record was returned for an education whose coursework is a
\* string
C9_Witness ==
    /\ NormReturned
    /\ IsObject(CandSection("education"))
    /\ Get(CandSection("education"), "coursework") = JStr(A)

\* the returned list is the given list with each entry's missing fields set
\* to "" and nothing else changed
OnlyBackfilled(given, returned, fields) ==
    /\ IsArray(returned)
    /\ returned.p = given.p
    /\ Len(returned.a) = Len(given.a)
    /\ \A i \in 1..Len(given.a) :
          /\ IsObject(given.a[i]) /\ returned.a[i].t = given.a[i].t
          /\ DOMAIN returned.a[i].p = DOMAIN given.a[i].p \cup Range(fields)
          /\ \A k \in DOMAIN given.a[i].p : returned.a[i].p[k] = given.a[i].p[k]
          /\ \A k \in Range(fields) \ DOMAIN given.a[i].p :
                returned.a[i].p[k] = EmptyStr

\* C10: the experience and projects lists come back with the same length and
\* order, duplicates kept, every given field value unchanged (an employmentType
\* outside the five values included) and only the missing fields added as "".
C10_ListsOnlyBackfilled ==
    NormReturned =>
        /\ IsArray(CandSection("experience"))
              => OnlyBackfilled(CandSection("experience"), OutExperience, expFields)
        /\ IsArray(CandSection("projects"))
              => OnlyBackfilled(CandSection("projects"), OutProjects, projFields)

\* C10 happens: a record was returned for an experience list holding the same
\* entry twice, its employmentType outside the five values
C10_Witness ==
    /\ NormReturned
    /\ IsArray(CandSection("experience"))
    /\ Len(CandSection("experience").a) = 2
    /\ CandSection("experience").a[1] = CandSection("experience").a[2]
    /\ Get(CandSection("experience").a[1], "employmentType").t = "str"
    /\ Get(CandSection("experience").a[1], "employmentType").s \notin EmploymentTypes

-----------------------------------------------------------------------------
(* Strings: the String methods the pipeline uses, on sequences of letters. *)

UpperLetters ==
    <<"A", "B", "C", "D", "E", "F", "G", "H", "I", "J", "K", "L", "M",
      "N", "O", "P", "Q", "R", "S", "T", "U", "V", "W", "X", "Y", "Z">>

LowerLetters ==
    <<"a", "b", "c", "d", "e", "f", "g", "h", "i", "j", "k", "l", "m",
      "n", "o", "p", "q", "r", "s", "t", "u", "v", "w", "x", "y", "z">>

\* s.toLowerCase()
ToLowerCase(s) ==
    [i \in 1..Len(s) |->
        IF \E j \in 1..Len(UpperLetters) : UpperLetters[j] = s[i]
        THEN LowerLetters[CHOOSE j \in 1..Len(UpperLetters) : UpperLetters[j] = s[i]]
        ELSE s[i]]

\* s.includes(part)
Includes(s, part) ==
    \E i \in 0..(Len(s) - Len(part)) : SubSeq(s, i + 1, i + Len(part)) = part

\* the white space trim() removes and JSON.parse skips
WhiteSpace == {" ", "\n", "\t", "\r"}

\* s.trim()
Trim(s) ==
    LET inked == {i \in 1..Len(s) : s[i] \notin WhiteSpace}
    IN  IF inked = {} THEN <<>>
        ELSE SubSeq(s, CHOOSE i \in inked : \A j \in inked : i <= j,
                       CHOOSE i \in inked : \A j \in inked : i >= j)

\* c repeated n times
Fill(c, n) == [i \in 1..n |-> c]

-----------------------------------------------------------------------------
(* Errors.  The code throws plain Error objects; an error is named here by *)
(* the message it is built with:                                           *)
(*   UnsupportedFormat    "Unsupported file type: <extension>. Only ..."   *)
(*   ExtractionFailed     "PDF parsing error: ...", "Error extracting text *)
(*                        from PDF: ...", "Error extracting text from      *)
(*                        DOCX: ..."                                       *)
(*   InsufficientText     "Could not extract sufficient text from ..."     *)
(*   UnparseableResponse  "Could not extract valid JSON from API response" *)
(*   ModelCallFailed      "Error calling Anthropic API: <cause>"           *)
(* detail is the text the message quotes, cause the error it wraps.        *)

Error(kind, detail, cause) == [kind |-> kind, detail |-> detail, cause |-> cause]

\* outcomes of an extractor
Extracted(chars) == [ok |-> TRUE, text |-> chars, error |-> NoError]
ExtractFailed(error) == [ok |-> FALSE, text |-> <<>>, error |-> error]

-----------------------------------------------------------------------------
(* ResumeParser.extractText and the two extractors *)

\* the characters decodeURIComponent restores from their %XX code; a % that
\* begins none of these codes is malformed (the documents carry no other code)
PercentCodes ==
    [code \in {<<"2", "0">>, <<"2", "C">>, <<"4", "0">>, <<"2", "5">>} |->
        CASE code = <<"2", "0">> -> " "
          [] code = <<"2", "C">> -> ","
          [] code = <<"4", "0">> -> "@"
          [] code = <<"2", "5">> -> "%"]

\* decodeURIComponent(s): [ok, text]; not ok is its URIError.  Every % starts
\* an escape (no code holds one); the letters outside the escapes stay, each
\* escape becomes its character
DecodeURIComponent(s) ==
    LET escapes == {i \in 1..Len(s) : s[i] = "%"}
        malformed == {i \in escapes :
                        i + 2 > Len(s) \/ SubSeq(s, i + 1, i + 2) \notin DOMAIN PercentCodes}
        kept == {i \in 1..Len(s) : (i - 1) \notin escapes /\ (i - 2) \notin escapes}
        at(k) == CHOOSE i \in kept : Cardinality({j \in kept : j <= i}) = k
        decoded(i) == IF i \in escapes THEN PercentCodes[SubSeq(s, i + 1, i + 2)] ELSE s[i]
    IN  IF malformed # {} THEN [ok |-> FALSE, text |-> <<>>]
        ELSE [ok |-> TRUE, text |-> [k \in 1..Cardinality(kept) |-> decoded(at(k))]]

AppendRuns_FirstOnly(acc, runs) ==
    IF ~acc.ok \/ runs = <<>> THEN acc
    ELSE [ok |-> TRUE, text |-> acc.text \o Head(runs)]

\* for (const r of textItem.R) if (r.T) text += decodeURIComponent(r.T) + " ";
\* on the runs of one text item, appended to the text so far
RECURSIVE AppendRuns(_, _)
AppendRuns(acc, runs) ==
    IF ~acc.ok \/ runs = <<>> THEN acc
    ELSE IF Head(runs) = <<>> THEN AppendRuns(acc, Tail(runs))
    ELSE LET decoded == DecodeURIComponent(Head(runs))
         IN  IF ~decoded.ok THEN [ok |-> FALSE, text |-> <<>>]
             ELSE AppendRuns([ok |-> TRUE, text |-> acc.text \o decoded.text \o <<" ">>],
                             Tail(runs))

\* for (const textItem of page.Texts) ...
RECURSIVE AppendTexts(_, _)
AppendTexts(acc, items) ==
    IF ~acc.ok \/ items = <<>> THEN acc
    ELSE AppendTexts(AppendRuns(acc, Head(items)), Tail(items))

\* for (const page of pdfData.Pages) { ...; text += "\n"; }
RECURSIVE AppendPages(_, _)
AppendPages(acc, pages) ==
    IF ~acc.ok \/ pages = <<>> THEN acc
    ELSE LET page == AppendTexts(acc, Head(pages))
         IN  IF ~page.ok THEN page
             ELSE AppendPages([ok |-> TRUE, text |-> page.text \o <<"\n">>], Tail(pages))

\* extractTextFromPDF: the parser reports a data error for bytes that are no
\* PDF, else the pages; a page is its text items, a text item its runs
extractTextFromPDF(buf) ==
    IF buf.kind # "pdf"
    THEN ExtractFailed(Error("ExtractionFailed", <<>>, "parserError"))
    ELSE LET joined == AppendPages([ok |-> TRUE, text |-> <<>>], buf.pages)
         IN  IF joined.ok THEN Extracted(Trim(joined.text))
             ELSE ExtractFailed(Error("ExtractionFailed", <<>>, "URIError"))

extractTextFromDocx_Lenient(buf) ==
    IF buf.kind # "docx" THEN Extracted(<<>>) ELSE Extracted(buf.value)

\* extractTextFromDocx: mammoth's raw text, or its exception for bytes that
\* are no DOCX
extractTextFromDocx(buf) ==
    IF buf.kind # "docx"
    THEN ExtractFailed(Error("ExtractionFailed", <<>>, "mammothError"))
    ELSE Extracted(buf.value)

\* the strings extractText compares the lower-cased type with
Known ==
    [ pdf |-> <<"p", "d", "f">>, dotPdf |-> <<".", "p", "d", "f">>,
      docx |-> <<"d", "o", "c", "x">>, dotDocx |-> <<".", "d", "o", "c", "x">>,
      doc |-> <<"d", "o", "c">>, dotDoc |-> <<".", "d", "o", "c">>,
      word |-> <<"w", "o", "r", "d">> ]

IsPdfType_Exact(extension) == extension = Known.pdf \/ extension = Known.dotPdf

\* the first branch of extractText
IsPdfType(extension) ==
    extension = Known.pdf \/ extension = Known.dotPdf \/ Includes(extension, Known.pdf)

IsDocxType_Exact(extension) ==
    \/ extension = Known.docx \/ extension = Known.dotDocx
    \/ extension = Known.doc \/ extension = Known.dotDoc

\* the second branch of extractText
IsDocxType(extension) ==
    \/ extension = Known.docx \/ extension = Known.dotDocx
    \/ extension = Known.doc \/ extension = Known.dotDoc
    \/ Includes(extension, Known.word)

\* the extractor extractText hands the buffer to: "pdf", "docx" or "none"
Route(type) ==
    LET extension == ToLowerCase(type)
    IN  IF IsPdfType(extension) THEN "pdf"
        ELSE IF IsDocxType(extension) THEN "docx"
        ELSE "none"

UnsupportedFormat_Declared(type) == Error("UnsupportedFormat", type, "none")

\* the error of the last branch of extractText
UnsupportedFormat(type) == Error("UnsupportedFormat", ToLowerCase(type), "none")

-----------------------------------------------------------------------------
(* JSON.parse, on a sequence of letters: objects, arrays, strings without  *)
(* escape sequences, unsigned integers, true, false and null, with white   *)
(* space between the tokens.  (Escapes, signs, fractions and exponents are *)
(* not decoded: no reply of the model carries one.)                        *)

\* the letters of the property names the replies use
KeyLetters ==
    [ header |-> <<"h", "e", "a", "d", "e", "r">>,
      education |-> <<"e", "d", "u", "c", "a", "t", "i", "o", "n">>,
      experience |-> <<"e", "x", "p", "e", "r", "i", "e", "n", "c", "e">>,
      projects |-> <<"p", "r", "o", "j", "e", "c", "t", "s">>,
      name |-> <<"n", "a", "m", "e">>,
      email |-> <<"e", "m", "a", "i", "l">>,
      title |-> <<"t", "i", "t", "l", "e">>,
      skills |-> <<"s", "k", "i", "l", "l", "s">>,
      position |-> <<"p", "o", "s", "i", "t", "i", "o", "n">>,
      tagline |-> <<"t", "a", "g", "l", "i", "n", "e">>,
      award |-> <<"a", "w", "a", "r", "d">>,
      length |-> <<"l", "e", "n", "g", "t", "h">> ]

\* the property a quoted key names
PropertyKey(chars) ==
    IF \E k \in DOMAIN KeyLetters : KeyLetters[k] = chars
    THEN CHOOSE k \in DOMAIN KeyLetters : KeyLetters[k] = chars
    ELSE ToString(chars)

\* outcomes of parsing a value that starts at position i: the value and the
\* position after it, or a SyntaxError
Parsed(v, i) == [ok |-> TRUE, v |-> v, i |-> i]
SyntaxError == [ok |-> FALSE, v |-> JUndef, i |-> 0]

\* the first position from i on that holds no white space
RECURSIVE SkipWhiteSpace(_, _)
SkipWhiteSpace(s, i) ==
    IF i <= Len(s) /\ s[i] \in WhiteSpace THEN SkipWhiteSpace(s, i + 1) ELSE i

\* the string whose opening quote is at i
ParseString(s, i) ==
    LET closing == {j \in (i + 1)..Len(s) : s[j] = "\""}
    IN  IF closing = {} THEN SyntaxError
        ELSE LET close == CHOOSE j \in closing : \A k \in closing : j <= k
                 chars == SubSeq(s, i + 1, close - 1)
             IN  IF \E k \in 1..Len(chars) : chars[k] \in {"\\", "\n", "\t", "\r"}
                 THEN SyntaxError
                 ELSE Parsed(JStr(chars), close + 1)

\* the position after the digits that start at i
RECURSIVE SkipDigits(_, _)
SkipDigits(s, i) ==
    IF i <= Len(s) /\ DigitValue(s[i]) >= 0 THEN SkipDigits(s, i + 1) ELSE i

\* the number the digits s[i..j-1] write
RECURSIVE DigitsValue(_, _, _)
DigitsValue(s, i, j) ==
    IF i >= j THEN 0
    ELSE 10 * DigitsValue(s, i, j - 1) + DigitValue(s[j - 1])

\* the unsigned integer that starts at i (no leading zero)
ParseNumber(s, i) ==
    LET after == SkipDigits(s, i)
    IN  IF s[i] = "0" /\ after > i + 1 THEN SyntaxError
        ELSE Parsed(JNum(DigitsValue(s, i, after)), after)

\* the literal word at i
ParseLiteral(s, i, letters, v) ==
    IF i + Len(letters) - 1 <= Len(s) /\ SubSeq(s, i, i + Len(letters) - 1) = letters
    THEN Parsed(v, i + Len(letters))
    ELSE SyntaxError

RECURSIVE ParseValue(_, _)
RECURSIVE ParseMembers(_, _, _)
RECURSIVE ParseElements(_, _, _)

\* the members of an object from the key at i on, added to props
ParseMembers(s, i, props) ==
    IF i > Len(s) \/ s[i] # "\"" THEN SyntaxError
    ELSE LET key == ParseString(s, i)
             colon == IF key.ok THEN SkipWhiteSpace(s, key.i) ELSE 0
         IN  IF ~key.ok \/ colon > Len(s) \/ s[colon] # ":" THEN SyntaxError
             ELSE LET value == ParseValue(s, colon + 1)
                      next == IF value.ok THEN SkipWhiteSpace(s, value.i) ELSE 0
                      added == (PropertyKey(key.v.s) :> value.v) @@ props
                  IN  IF ~value.ok \/ next > Len(s) THEN SyntaxError
                      ELSE IF s[next] = "}" THEN Parsed(JObj(added), next + 1)
                      ELSE IF s[next] = ","
                           THEN ParseMembers(s, SkipWhiteSpace(s, next + 1), added)
                      ELSE SyntaxError

\* the elements of an array from the value at i on, added to elements
ParseElements(s, i, elements) ==
    LET value == ParseValue(s, i)
        next == IF value.ok THEN SkipWhiteSpace(s, value.i) ELSE 0
        added == Append(elements, value.v)
    IN  IF ~value.ok \/ next > Len(s) THEN SyntaxError
        ELSE IF s[next] = "]" THEN Parsed(JArr(added), next + 1)
        ELSE IF s[next] = "," THEN ParseElements(s, next + 1, added)
        ELSE SyntaxError

\* the value that starts at or after i
ParseValue(s, i) ==
    LET at == SkipWhiteSpace(s, i)
    IN  IF at > Len(s) THEN SyntaxError
        ELSE CASE s[at] = "{" ->
                    LET first == SkipWhiteSpace(s, at + 1)
                    IN  IF first <= Len(s) /\ s[first] = "}"
                        THEN Parsed(EmptyObj, first + 1)
                        ELSE ParseMembers(s, first, <<>>)
               [] s[at] = "[" ->
                    LET first == SkipWhiteSpace(s, at + 1)
                    IN  IF first <= Len(s) /\ s[first] = "]"
                        THEN Parsed(EmptyArr, first + 1)
                        ELSE ParseElements(s, first, <<>>)
               [] s[at] = "\"" -> ParseString(s, at)
               [] DigitValue(s[at]) >= 0 -> ParseNumber(s, at)
               [] s[at] = "t" -> ParseLiteral(s, at, <<"t", "r", "u", "e">>, JBool(TRUE))
               [] s[at] = "f" ->
                    ParseLiteral(s, at, <<"f", "a", "l", "s", "e">>, JBool(FALSE))
               [] s[at] = "n" -> ParseLiteral(s, at, <<"n", "u", "l", "l">>, JNull)
               [] OTHER -> SyntaxError

\* JSON.parse(s): one value and nothing but white space after it
JSONParse(s) ==
    LET value == ParseValue(s, 1)
    IN  IF value.ok /\ SkipWhiteSpace(s, value.i) > Len(s) THEN value ELSE SyntaxError

-----------------------------------------------------------------------------
(* ResumeParser.parseWithAnthropic *)

\* "Parse the following resume and extract information into the JSON
\* format:" and two line feeds, the text before ${resumeText} in userPrompt
UserPromptPrefix ==
    <<"P", "a", "r", "s", "e", " ", "t", "h", "e", " ", "f", "o", "l", "l",
      "o", "w", "i", "n", "g", " ", "r", "e", "s", "u", "m", "e", " ", "a",
      "n", "d", " ", "e", "x", "t", "r", "a", "c", "t", " ", "i", "n", "f",
      "o", "r", "m", "a", "t", "i", "o", "n", " ", "i", "n", "t", "o", " ",
      "t", "h", "e", " ", "J", "S", "O", "N", " ", "f", "o", "r", "m", "a",
      "t", ":", "\n", "\n">>

Request_Trimmed(chars) ==
    [model |-> "claude-3-5-sonnet-20241022", max_tokens |-> 4000, temperature |-> 0,
     system |-> "systemPrompt", user |-> UserPromptPrefix \o Trim(chars)]

\* the argument of messages.create
Request(chars) ==
    [model |-> "claude-3-5-sonnet-20241022", max_tokens |-> 4000, temperature |-> 0,
     system |-> "systemPrompt", user |-> UserPromptPrefix \o chars]

\* parseResume's outcomes
Done(v) == [status |-> "returned", v |-> v, error |-> NoError]
Failed(error) == [status |-> "failed", v |-> JUndef, error |-> error]

\* the outer catch: throw new Error(`Error calling Anthropic API: ${String(error)}`)
ModelCallFailed(cause) == Failed(Error("ModelCallFailed", <<>>, cause))

\* response.content[0].type === 'text' ? response.content[0].text.trim() : ''
ResponseText(answer) == IF answer.kind = "text" THEN Trim(answer.text) ELSE <<>>

BraceMatch_Shortest(s) ==
    LET opens == {i \in 1..Len(s) : s[i] = "{"}
        first == CHOOSE i \in opens : \A j \in opens : i <= j
        closes == {i \in 1..Len(s) : s[i] = "}" /\ i > first}
        last == CHOOSE i \in closes : \A j \in closes : i <= j
    IN  IF opens = {} \/ closes = {} THEN [found |-> FALSE, text |-> <<>>]
        ELSE [found |-> TRUE, text |-> SubSeq(s, first, last)]

\* responseText.match(/\{[\s\S]*\}/): from the first { to the last } after it
BraceMatch(s) ==
    LET opens == {i \in 1..Len(s) : s[i] = "{"}
        first == CHOOSE i \in opens : \A j \in opens : i <= j
        closes == {i \in 1..Len(s) : s[i] = "}" /\ i > first}
        last == CHOOSE i \in closes : \A j \in closes : i >= j
    IN  IF opens = {} \/ closes = {} THEN [found |-> FALSE, text |-> <<>>]
        ELSE [found |-> TRUE, text |-> SubSeq(s, first, last)]

\* what parseWithAnthropic makes of the steps after the reply: the outcome,
\* the value last handed to validateAndCleanData, whether that call read the
\* clock, and the stages entered
Settled(outcome, value, stamped, entered) ==
    [result |-> outcome, candidate |-> value, stamped |-> stamped, stages |-> entered]

\* the two statements both blocks of the inner try end with,
\*   const parsedData = JSON.parse(...); return this.validateAndCleanData(parsedData);
\* thrown is the exception that ends them, "none" when they return v
Threw(thrown, value, entered) ==
    [thrown |-> thrown, value |-> value, v |-> JUndef, entered |-> entered]

Cleaned_Raw(value, cleaned) ==
    [thrown |-> "none", value |-> value, v |-> value, entered |-> <<"parse", "normalize">>]

Cleaned(value, cleaned) ==
    IF cleaned.raised THEN Threw("TypeError", value, <<"parse", "normalize">>)
    ELSE [thrown |-> "none", value |-> value, v |-> cleaned.v,
          entered |-> <<"parse", "normalize">>]

CleanParsed(parsed, clock) ==
    IF ~parsed.ok THEN Threw("SyntaxError", JUndef, <<"parse">>)
    ELSE Cleaned(parsed.v, validateAndCleanData(parsed.v, clock))

ParseAndClean(chars, clock) == CleanParsed(JSONParse(chars), clock)

\* the catch block of the inner try after a match: what it throws goes to the
\* outer catch
Retried(tried, value, entered) ==
    IF tried.thrown = "none"
    THEN Settled(Done(tried.v), tried.value, TRUE, entered \o tried.entered)
    ELSE Settled(ModelCallFailed(tried.thrown),
                 IF tried.thrown = "TypeError" THEN tried.value ELSE value,
                 FALSE, entered \o tried.entered)

\* if (jsonMatch) ... else throw new Error("Could not extract valid JSON ...")
Matched(match, clock, value, entered) ==
    IF ~match.found
    THEN Settled(ModelCallFailed("UnparseableResponse"), value, FALSE, entered)
    ELSE Retried(ParseAndClean(match.text, clock), value, entered)

\* the catch block of the inner try, entered on any exception of it
Fallback(chars, clock, value, entered) ==
    Matched(BraceMatch(chars), clock, value, entered \o <<"match">>)

\* the inner try, and its catch
Tried(tried, chars, clock) ==
    IF tried.thrown = "none"
    THEN Settled(Done(tried.v), tried.value, TRUE, tried.entered)
    ELSE Fallback(chars, clock, tried.value, tried.entered)

Interpret(chars, clock) == Tried(ParseAndClean(chars, clock), chars, clock)

\* the body of the outer try once messages.create has settled with answer
AfterReply(answer, clock) ==
    CASE answer.kind = "failure" ->
            Settled(ModelCallFailed("transport"), JUndef, FALSE, <<>>)
      [] answer.kind = "empty" ->                        \* content[0] is undefined
            Settled(ModelCallFailed("TypeError"), JUndef, FALSE, <<"response">>)
      [] OTHER ->
            LET settled == Interpret(ResponseText(answer), clock)
            IN  [settled EXCEPT !.stages = <<"response">> \o @]

-----------------------------------------------------------------------------
(* The inputs of a parseResume call. *)

\* the shortest trimmed text parseResume accepts
MinTextLength == 50

\* declared types: extensions, MIME types, file names, in either case, and
\* the empty string
FileTypes ==
    { <<"p", "d", "f">>,
      <<"P", "D", "F">>,
      <<".", "p", "d", "f">>,
      <<"a", "p", "p", "l", "i", "c", "a", "t", "i", "o", "n", "/", "p", "d",
        "f">>,
      <<"r", "e", "s", "u", "m", "e", ".", "p", "d", "f">>,
      <<"w", "o", "r", "d", ".", "p", "d", "f">>,
      <<"d", "o", "c", "x">>,
      <<".", "d", "o", "c", "x">>,
      <<"d", "o", "c">>,
      <<".", "d", "o", "c">>,
      <<"D", "O", "C", "X">>,
      <<"a", "p", "p", "l", "i", "c", "a", "t", "i", "o", "n", "/", "m", "s",
        "w", "o", "r", "d">>,
      <<"a", "p", "p", "l", "i", "c", "a", "t", "i", "o", "n", "/", "v", "n",
        "d", ".", "o", "p", "e", "n", "x", "m", "l", "f", "o", "r", "m", "a",
        "t", "s", "-", "o", "f", "f", "i", "c", "e", "d", "o", "c", "u", "m",
        "e", "n", "t", ".", "w", "o", "r", "d", "p", "r", "o", "c", "e", "s",
        "s", "i", "n", "g", "m", "l", ".", "d", "o", "c", "u", "m", "e", "n",
        "t">>,
      <<"r", "e", "s", "u", "m", "e", ".", "d", "o", "c", "x">>,
      <<"f", "i", "l", "e", ".", "D", "O", "C">>,
      <<"t", "x", "t">>,
      <<"T", "X", "T">>,
      <<>> }

PdfFile(pages) == [kind |-> "pdf", pages |-> pages, value |-> <<>>]
DocxFile(value) == [kind |-> "docx", pages |-> <<>>, value |-> value]
OtherFile == [kind |-> "other", pages |-> <<>>, value |-> <<>>]

\* PDF documents: no page; a short one; one run of 49 and of 50 letters; two
\* pages with an escaped run; a run with a malformed escape; three pages, the
\* first with two text items and an empty run, the second with no text
PdfFiles ==
    { PdfFile(<<>>),
      PdfFile(<< << <<<<"H", "i">>>> >> >>),
      PdfFile(<< << <<Fill("x", MinTextLength - 1)>> >> >>),
      PdfFile(<< << <<Fill("x", MinTextLength)>> >> >>),
      PdfFile(<< << <<Fill("x", MinTextLength - 20), <<"a", "%", "2", "0", "b">>>> >>,
                 << <<Fill("y", 20)>> >> >>),
      PdfFile(<< << <<Fill("x", MinTextLength), <<"%">>>> >> >>),
      PdfFile(<< << <<<<"H", "i">>>>, <<<<"t", "o">>, <<>>, <<"a", "%", "4", "0", "b">>>> >>,
                 <<>>,
                 << <<Fill("z", MinTextLength)>> >> >>) }

\* DOCX documents: empty; 49 letters inside white space; 50 letters; 50
\* letters inside white space
DocxFiles ==
    { DocxFile(<<>>),
      DocxFile(<<" ", " ">> \o Fill("x", MinTextLength - 1) \o <<"\n">>),
      DocxFile(Fill("x", MinTextLength)),
      DocxFile(<<" ">> \o Fill("x", MinTextLength) \o <<"\n">>) }

Buffers == PdfFiles \cup DocxFiles \cup {OtherFile}

\* {"header":{"name":"A. Dev","email":"a@x.com"},"experience":[{"title":"Acme"}]}
ScenarioJSON ==
    <<"{", "\"", "h", "e", "a", "d", "e", "r", "\"", ":", "{", "\"", "n", "a",
      "m", "e", "\"", ":", "\"", "A", ".", " ", "D", "e", "v", "\"", ",",
      "\"", "e", "m", "a", "i", "l", "\"", ":", "\"", "a", "@", "x", ".", "c",
      "o", "m", "\"", "}", ",", "\"", "e", "x", "p", "e", "r", "i", "e", "n",
      "c", "e", "\"", ":", "[", "{", "\"", "t", "i", "t", "l", "e", "\"", ":",
      "\"", "A", "c", "m", "e", "\"", "}", "]", "}">>

\* {"header":{}}
BareJSON == <<"{", "\"", "h", "e", "a", "d", "e", "r", "\"", ":", "{", "}",
              "}">>

\* a sentence, then the opening line of a json code fence
FenceBefore ==
    <<"H", "e", "r", "e", " ", "i", "s", " ", "t", "h", "e", " ", "J", "S",
      "O", "N", ":", "\n", "~", "~", "~", "j", "s", "o", "n", "\n">>

\* the closing line of a code fence
FenceAfter == <<"\n", "~", "~", "~">>

\* JSON texts the model may wrap: <<before, json, after>>
Wrappings ==
    { <<FenceBefore, BareJSON, FenceAfter>>,
      <<FenceBefore, ScenarioJSON, FenceAfter>>,
      <<<<"S", "u", "r", "e", ":", " ">>, ScenarioJSON, <<>>>>,
      <<<<" ", "\n">>, BareJSON, <<"\n">>>>,
      <<<<>>, ScenarioJSON, <<>>>>,
      <<<<>>, BareJSON, <<" ", "(", "s", "e", "e", " ", "{", "n", "o", "t",
                          "e", "}", ")">>>> }

\* other texts the model may answer
PlainTexts ==
    { <<"I", " ", "c", "a", "n", "n", "o", "t", " ", "p", "a", "r", "s", "e",
        " ", "t", "h", "i", "s", " ", "r", "e", "s", "u", "m", "e", ".">>,
      <<"R", "e", "s", "u", "l", "t", ":", " ", "{", "h", "e", "a", "d", "e",
        "r", ":", " ", "n", "o", "n", "e", "}">>,
      <<"n", "u", "l", "l">>,
      <<"5">>,
      <<"{", "\"", "h", "e", "a", "d", "e", "r", "\"", ":", "\"", "x", "\"",
        "}">>,
      <<"{", "\"", "e", "x", "p", "e", "r", "i", "e", "n", "c", "e", "\"",
        ":", "5", "}">>,
      <<"{", "\"", "e", "x", "p", "e", "r", "i", "e", "n", "c", "e", "\"",
        ":", "{", "}", ",", "\"", "h", "e", "a", "d", "e", "r", "\"", ":",
        "[", "]", "}">>,
      <<"[", "]">>,
      <<"\"", "{", "}", "\"">>,
      <<>> }

Text(chars) == [kind |-> "text", text |-> chars]

\* what messages.create may settle with: a rejection, a text block, a block
\* that is no text, no block at all
Replies ==
    { [kind |-> "failure", text |-> <<>>],
      [kind |-> "other", text |-> <<>>],
      [kind |-> "empty", text |-> <<>>] }
    \cup { Text(w[1] \o w[2] \o w[3]) : w \in Wrappings }
    \cup { Text(chars) : chars \in PlainTexts }

\* the clock before new Date() has been read
NoClock == [month |-> 0, year |-> 0]

-----------------------------------------------------------------------------
(* ResumeParser.parseResume as a state machine.  A call suspends twice: on *)
(* the extractor and on messages.create; what runs between two suspensions *)
(* is one step.                                                            *)

Init ==
    /\ procs = <<>>
    /\ db = EmptyDb
    /\ fileType \in FileTypes
    /\ buffer \in Buffers
    /\ resumeText = <<>>
    /\ requests = <<>>
    /\ reply = NoReply
    /\ result = Pending
    /\ stages = <<>>
    /\ pc = "start"
    /\ candidate = JUndef
    /\ now = NoClock
    /\ now2 = NoClock
    /\ out = Raised
    /\ out2 = Raised

InsufficientText_Untrimmed(chars) == chars = <<>> \/ Len(chars) < MinTextLength

\* !resumeText || resumeText.trim().length < 50
InsufficientText(chars) == chars = <<>> \/ Len(Trim(chars)) < MinTextLength

\* parseResume up to the extractor: extractText picks the extractor and starts
\* it, or throws
ExtractText ==
    /\ pc = "start"
    /\ LET route == Route(fileType)
       IN  IF route = "none"
           THEN /\ pc' = "failed"
                /\ result' = Failed(UnsupportedFormat(fileType))
                /\ stages' = stages \o <<"dispatch">>
           ELSE /\ pc' = IF route = "pdf" THEN "extractingPdf" ELSE "extractingDocx"
                /\ result' = result
                /\ stages' = stages \o <<"dispatch", route>>
    /\ UNCHANGED <<fileType, buffer, resumeText, requests, reply>>
    /\ UNCHANGED <<candidate, now, now2, out, out2>>
    /\ UNCHANGED storeVars

Send_Twice(sent, chars) == Append(Append(sent, Request(chars)), Request(chars))

\* messages.create is called with the prompt built from the text
Send(sent, chars) == Append(sent, Request(chars))

\* parseResume from the extractor's settling to the next suspension: the
\* rejection is passed on, or the text is checked and handed to
\* parseWithAnthropic, which runs up to messages.create
Continue(extracted) ==
    IF ~extracted.ok
    THEN /\ pc' = "failed"
         /\ result' = Failed(extracted.error)
         /\ stages' = stages
         /\ UNCHANGED <<resumeText, requests>>
    ELSE /\ resumeText' = extracted.text
         /\ IF InsufficientText(extracted.text)
            THEN /\ pc' = "failed"
                 /\ result' = Failed(Error("InsufficientText", <<>>, "none"))
                 /\ stages' = stages \o <<"guard">>
                 /\ requests' = requests
            ELSE /\ pc' = "awaitingModel"
                 /\ result' = result
                 /\ stages' = stages \o <<"guard", "request">>
                 /\ requests' = Send(requests, extracted.text)

\* pdf2json emits pdfParser_dataError or pdfParser_dataReady
PdfParsed ==
    /\ pc = "extractingPdf"
    /\ Continue(extractTextFromPDF(buffer))
    /\ UNCHANGED <<fileType, buffer, reply>>
    /\ UNCHANGED <<candidate, now, now2, out, out2>>
    /\ UNCHANGED storeVars

\* mammoth.extractRawText settles
DocxExtracted ==
    /\ pc = "extractingDocx"
    /\ Continue(extractTextFromDocx(buffer))
    /\ UNCHANGED <<fileType, buffer, reply>>
    /\ UNCHANGED <<candidate, now, now2, out, out2>>
    /\ UNCHANGED storeVars

\* parseWithAnthropic, then parseResume, run to their end
Settle(answer, clock, settled) ==
    /\ reply' = answer
    /\ result' = settled.result
    /\ candidate' = settled.candidate
    /\ now' = IF settled.stamped THEN clock ELSE now
    /\ stages' = stages \o settled.stages
    /\ pc' = IF settled.result.status = "returned" THEN "done" ELSE "failed"

\* messages.create settles
ModelResponds ==
    /\ pc = "awaitingModel"
    /\ \E answer \in Replies, clock \in Clocks :
          Settle(answer, clock, AfterReply(answer, clock))
    /\ UNCHANGED <<fileType, buffer, resumeText, requests>>
    /\ UNCHANGED <<now2, out, out2>>
    /\ UNCHANGED storeVars

Next == ExtractText \/ PdfParsed \/ DocxExtracted \/ ModelResponds

Spec == Init /\ [][Next]_vars

-----------------------------------------------------------------------------
(* Claims about extractText *)

\* c with an upper-case letter folded to its lower-case one
Fold(c) == ToLowerCase(<<c>>)[1]

\* part occurs in s, the case of s's letters ignored (part is lower-case)
ContainsIgnoringCase(s, part) ==
    \E i \in 0..(Len(s) - Len(part)) : \A k \in 1..Len(part) : Fold(s[i + k]) = part[k]

\* s is part, the case of s's letters ignored
EqualsIgnoringCase(s, part) ==
    Len(s) = Len(part) /\ \A k \in 1..Len(part) : Fold(s[k]) = part[k]

\* extractText has run
Dispatched == pc # "start"

\* the extractor the call entered, "none" when it entered neither
Entered ==
    IF Len(stages) >= 2 /\ stages[2] \in {"pdf", "docx"} THEN stages[2] ELSE "none"

\* C11: a declared type that contains "pdf", in any case, is routed to the PDF
\* extractor, never to the DOCX extractor or the unsupported-format error
C11_PdfRouted ==
    (Dispatched /\ ContainsIgnoringCase(fileType, Known.pdf)) =>
        /\ Entered = "pdf"
        /\ result.error.kind # "UnsupportedFormat"

C11_Witness ==
    pc = "extractingPdf" /\ fileType = <<"w", "o", "r", "d", ".", "p", "d", "f">>

\* C12 as stated: a declared type without "pdf" that contains "docx", "doc" or
\* "word", in any case, is routed to the DOCX extractor
C12_DocxRoutedBySubstring ==
    (/\ Dispatched
     /\ ~ContainsIgnoringCase(fileType, Known.pdf)
     /\ \/ ContainsIgnoringCase(fileType, Known.docx)
        \/ ContainsIgnoringCase(fileType, Known.doc)
        \/ ContainsIgnoringCase(fileType, Known.word)) =>
        Entered = "docx"

\* the declared type is one of "docx", ".docx", "doc", ".doc" in any case, or
\* contains "word" in any case
NamesDocx(type) ==
    \/ \E whole \in {Known.docx, Known.dotDocx, Known.doc, Known.dotDoc} :
          EqualsIgnoringCase(type, whole)
    \/ ContainsIgnoringCase(type, Known.word)

\* C12 amended: a declared type without "pdf" is routed to the DOCX extractor
\* exactly when it is "docx", ".docx", "doc" or ".doc" or contains "word", in
\* any case
C12_DocxRouted ==
    (Dispatched /\ ~ContainsIgnoringCase(fileType, Known.pdf)) =>
        (Entered = "docx" <=> NamesDocx(fileType))

C12_Witness ==
    /\ pc = "extractingDocx"
    /\ fileType = <<"a", "p", "p", "l", "i", "c", "a", "t", "i", "o", "n", "/",
                    "m", "s", "w", "o", "r", "d">>

\* no extractor was invoked and no model request issued
NothingStarted == Entered = "none" /\ requests = <<>> /\ reply = NoReply

\* C13 as stated: a declared type that matches no token fails with
\* UnsupportedFormat naming the declared type string; no extractor is invoked
\* and no model request issued
C13_UnsupportedNamesType ==
    (/\ Dispatched
     /\ \A token \in {Known.pdf, Known.docx, Known.doc, Known.word} :
           ~ContainsIgnoringCase(fileType, token)) =>
        /\ pc = "failed"
        /\ result = Failed(Error("UnsupportedFormat", fileType, "none"))
        /\ NothingStarted

\* C13 amended: a declared type that has no "pdf", is none of "docx", ".docx",
\* "doc", ".doc" and has no "word" fails with UnsupportedFormat naming the type
\* string in lower case; no extractor is invoked and no model request issued
C13_UnsupportedNamesLowerCase ==
    (Dispatched /\ ~ContainsIgnoringCase(fileType, Known.pdf) /\ ~NamesDocx(fileType)) =>
        /\ pc = "failed"
        /\ result.status = "failed"
        /\ result.error.kind = "UnsupportedFormat"
        /\ EqualsIgnoringCase(fileType, result.error.detail)
        /\ \A k \in 1..Len(result.error.detail) :
              result.error.detail[k] \notin {UpperLetters[j] : j \in 1..Len(UpperLetters)}
        /\ NothingStarted

C13_Witness ==
    /\ pc = "failed" /\ fileType = <<"T", "X", "T">>
    /\ result.error = Error("UnsupportedFormat", <<"t", "x", "t">>, "none")

-----------------------------------------------------------------------------
(* Claims about parseResume and parseWithAnthropic *)

\* the extractor has returned a text
TextExtracted == \E k \in 1..Len(stages) : stages[k] = "guard"

\* the call has ended
Ended == pc \in {"done", "failed"}

\* C14: when the extracted text is empty or shorter than 50 characters once
\* trimmed, the call fails with InsufficientText and no model request is ever
\* built or sent
C14_ShortTextFailsFast ==
    (TextExtracted /\ (resumeText = <<>> \/ Len(Trim(resumeText)) < MinTextLength)) =>
        /\ pc = "failed"
        /\ result = Failed(Error("InsufficientText", <<>>, "none"))
        /\ requests = <<>>
        /\ reply = NoReply

C14_Witness ==
    /\ pc = "failed" /\ Entered = "docx"
    /\ Len(resumeText) > MinTextLength
    /\ result.error.kind = "InsufficientText"

\* the model answered with a text and the call has ended
Answered == Ended /\ reply.kind = "text"

\* no brace in s
BraceFree(s) == \A k \in 1..Len(s) : s[k] \notin {"{", "}"}

\* s from its first { to its last }, <<>> when it has none in that order
Braced(s) ==
    LET pairs == {p \in (1..Len(s)) \X (1..Len(s)) :
                    s[p[1]] = "{" /\ s[p[2]] = "}" /\ p[1] < p[2]}
        widest == CHOOSE p \in pairs : \A q \in pairs : p[1] <= q[1] /\ p[2] >= q[2]
    IN  IF pairs = {} THEN <<>> ELSE SubSeq(s, widest[1], widest[2])

\* validateAndCleanData returns for v
Normalizable(v) == ~validateAndCleanData(v, now).raised

\* C15: the trimmed text is parsed strictly first; when that parse fails, the
\* text from the first { to the last } is parsed; so a JSON text wrapped in
\* prose or in code-fence lines is recovered as the value it encodes
C15_StrictThenBraces ==
    Answered =>
        LET trimmed == Trim(reply.text)
            strict == JSONParse(trimmed)
            braced == JSONParse(Braced(trimmed))
        IN  /\ (strict.ok /\ Normalizable(strict.v)) => candidate = strict.v
            /\ (~strict.ok /\ braced.ok) => candidate = braced.v
            /\ \A w \in Wrappings :
                  (/\ reply.text = w[1] \o w[2] \o w[3]
                   /\ BraceFree(w[1]) /\ BraceFree(w[3])) =>
                      /\ pc = "done"
                      /\ candidate = JSONParse(w[2]).v

C15_Witness ==
    /\ pc = "done"
    /\ reply.text = FenceBefore \o ScenarioJSON \o FenceAfter
    /\ ~JSONParse(Trim(reply.text)).ok
    /\ candidate = JSONParse(ScenarioJSON).v

\* neither the trimmed text nor its brace substring is a JSON text
BothParsesFail ==
    /\ Answered
    /\ ~JSONParse(Trim(reply.text)).ok
    /\ ~JSONParse(Braced(Trim(reply.text))).ok

\* C16: when both parses fail, the call fails with UnparseableResponse, and
\* the error carries an excerpt of the model's text
C16_UnparseableCarriesExcerpt ==
    BothParsesFail =>
        /\ pc = "failed"
        /\ result.error.kind = "UnparseableResponse"
        /\ Includes(reply.text, result.error.detail)
        /\ Trim(reply.text) # <<>> => result.error.detail # <<>>

\* the stage at which a failed call stopped, by the kind of its error
FailedStage ==
    IF Entered = "none" THEN "UnsupportedFormat"
    ELSE IF ~TextExtracted THEN "ExtractionFailed"
    ELSE IF requests = <<>> THEN "InsufficientText"
    ELSE IF reply.kind = "failure" THEN "ModelCallFailed"
    ELSE "UnparseableResponse"

\* C17: a failed call reports the error kind of the stage that failed; a
\* failure to parse the text of a model call that succeeded is not reported
\* as a failure of the model call
C17_FailureKeepsKind ==
    pc = "failed" =>
        /\ result.status = "failed"
        /\ reply.kind = "text" => result.error.kind # "ModelCallFailed"
        /\ reply.kind \in {"none", "failure", "text"} => result.error.kind = FailedStage

\* the value under key of the record returned
Section(key) == Get(result.v, key)

\* C18: when the text suffices and the model answers a JSON object, the call
\* returns the normalization of that object: Acme stays the title of the
\* first experience entry, the missing tagline and position are "", and
\* lastUpdated is the month and year of the clock
C18_ReturnsNormalization ==
    Answered =>
        LET parsed == JSONParse(Trim(reply.text))
        IN  /\ (parsed.ok /\ IsObject(parsed.v) /\ ~IsArray(parsed.v)
                /\ Normalizable(parsed.v)) =>
                  /\ pc = "done"
                  /\ result = Done(validateAndCleanData(parsed.v, now).v)
                  /\ IsMonthYear(Get(Section("header"), "lastUpdated").s, now)
            /\ reply.text = ScenarioJSON =>
                  /\ pc = "done"
                  /\ Get(Section("experience").a[1], "title") = JStr(<<"A", "c", "m", "e">>)
                  /\ Get(Section("experience").a[1], "position") = EmptyStr
                  /\ Get(Section("header"), "tagline") = EmptyStr
                  /\ Get(Section("header"), "name") =
                        JStr(<<"A", ".", " ", "D", "e", "v">>)

C18_Witness ==
    /\ pc = "done" /\ reply.text = ScenarioJSON
    /\ now = [month |-> 0, year |-> BaseYear]
    /\ Get(Section("header"), "lastUpdated") = JStr(<<"0", "1", "/">> \o ToDigits(BaseYear))

\* C19: a call sends at most one request; when the request fails in
\* transport, the call sends no other, fails with ModelCallFailed wrapping
\* that failure, and returns no record
C19_OneRequestNoRetry ==
    /\ Len(requests) <= 1
    /\ reply.kind = "failure" =>
          /\ pc = "failed"
          /\ Len(requests) = 1
          /\ result = Failed(Error("ModelCallFailed", <<>>, "transport"))

C19_Witness == pc = "failed" /\ reply.kind = "failure" /\ Len(requests) = 1

\* C20: a record the call returns has objects for header and education and
\* lists for experience and projects
C20_ReturnedRecordShaped ==
    pc = "done" =>
        /\ IsObject(Section("header")) /\ ~IsArray(Section("header"))
        /\ IsObject(Section("education")) /\ ~IsArray(Section("education"))
        /\ IsArray(Section("experience"))
        /\ IsArray(Section("projects"))

-----------------------------------------------------------------------------
(* Claims about the extractors and the order of the stages *)

\* the extractor has settled
ExtractorSettled == Dispatched /\ pc \notin {"extractingPdf", "extractingDocx"}

\* all runs of the pages, in page, item and run order
RECURSIVE Flatten(_)
Flatten(seqs) == IF seqs = <<>> THEN <<>> ELSE Head(seqs) \o Flatten(Tail(seqs))

\* the runs of a page that hold text
RunsOf(page) == SelectSeq(Flatten(page), LAMBDA run : run # <<>>)

\* a run holds a % that starts no escape
Malformed(run) == ~DecodeURIComponent(run).ok

\* the bytes are not a document of the container the call decodes, or a run of
\* the PDF holds a malformed escape
Undecodable ==
    \/ Entered = "docx" /\ buffer.kind # "docx"
    \/ Entered = "pdf" /\ buffer.kind # "pdf"
    \/ /\ Entered = "pdf"
       /\ \E p \in 1..Len(buffer.pages) :
             \E r \in 1..Len(RunsOf(buffer.pages[p])) : Malformed(RunsOf(buffer.pages[p])[r])

\* how often stage occurs in the history
Times(stage) == Cardinality({k \in 1..Len(stages) : stages[k] = stage})

\* C22: when decoding the container fails, the call fails with
\* ExtractionFailed carrying the decode error, the extractor is entered once
\* only and no model request is issued
C22_ExtractionFailureEndsCall ==
    (ExtractorSettled /\ Undecodable) =>
        /\ pc = "failed"
        /\ result.status = "failed"
        /\ result.error.kind = "ExtractionFailed"
        /\ result.error.cause \in {"parserError", "URIError", "mammothError"}
        /\ Times("pdf") + Times("docx") = 1
        /\ requests = <<>> /\ reply = NoReply

C22_Witness ==
    /\ pc = "failed" /\ Entered = "pdf" /\ buffer.kind = "pdf"
    /\ result.error = Error("ExtractionFailed", <<>>, "URIError")

\* the rank of a stage in the order extraction, request, interpretation,
\* normalization
Rank(stage) ==
    CASE stage = "dispatch" -> 0
      [] stage \in {"pdf", "docx", "guard"} -> 1
      [] stage \in {"request", "response"} -> 2
      [] stage \in {"parse", "match"} -> 3
      [] stage = "normalize" -> 4

\* C23: the stages of a call are entered in the order extraction, model
\* request, interpretation, normalization; once normalization has started
\* neither interpretation nor normalization runs again
C23_StagesInOrderOnce ==
    /\ \A i, j \in 1..Len(stages) : i < j => Rank(stages[i]) <= Rank(stages[j])
    /\ Times("normalize") <= 1
    /\ Times("request") <= 1
    /\ Times("pdf") + Times("docx") <= 1

\* seqs joined with sep between consecutive ones
RECURSIVE Join(_, _)
Join(seqs, sep) ==
    IF seqs = <<>> THEN <<>>
    ELSE IF Len(seqs) = 1 THEN Head(seqs)
    ELSE Head(seqs) \o sep \o Join(Tail(seqs), sep)

\* the runs of a page, decoded
DecodedRuns(page) == [r \in 1..Len(RunsOf(page)) |-> DecodeURIComponent(RunsOf(page)[r]).text]

\* the PDF extractor has returned the text of the buffer's pages
PdfExtracted == TextExtracted /\ Entered = "pdf"

\* C24 as stated: the text is the decoded runs in page and run order, one
\* space between consecutive runs of a page, one newline and nothing else
\* between consecutive pages
C24_RunsSpacedPagesOnLines ==
    PdfExtracted =>
        resumeText =
            Join([p \in 1..Len(buffer.pages) |-> Join(DecodedRuns(buffer.pages[p]), <<" ">>)],
                 <<"\n">>)

\* every run of the page with a space after it
Spaced(page) == Flatten([r \in 1..Len(DecodedRuns(page)) |-> DecodedRuns(page)[r] \o <<" ">>])

\* C24 amended: the text is the decoded runs in page and run order, one space
\* after every run and one newline after every page, with the white space at
\* both ends of the whole removed
C24_RunsInOrder ==
    PdfExtracted =>
        resumeText =
            Trim(Flatten([p \in 1..Len(buffer.pages) |-> Spaced(buffer.pages[p]) \o <<"\n">>]))

C24_Witness ==
    /\ PdfExtracted /\ Len(buffer.pages) = 3
    /\ SubSeq(resumeText, 1, 12) =
          <<"H", "i", " ", "t", "o", " ", "a", "@", "b", " ", "\n", "\n">>

\* C26: when the extracted text has 50 characters or more once trimmed, the
\* call issues exactly one model request, whose user turn holds the text as
\* the extractor returned it
C26_OneRequestWithText ==
    (ExtractorSettled /\ TextExtracted /\ Len(Trim(resumeText)) >= MinTextLength) =>
        /\ Len(requests) = 1
        /\ requests[1].user = UserPromptPrefix \o resumeText
        /\ Entered = "docx" => resumeText = buffer.value
        /\ Entered = "pdf" => Trim(resumeText) = resumeText

C26_Witness ==
    /\ pc = "awaitingModel" /\ Entered = "docx"
    /\ Len(Trim(resumeText)) = MinTextLength /\ Len(resumeText) > MinTextLength
    /\ Len(requests) = 1

-----------------------------------------------------------------------------
(* resumeFunctions: the mutations.  A document is the function from the    *)
(* field names to the JSON values of the arguments it was inserted with;   *)
(* a table is the sequence of its documents in insertion order.  A         *)
(* mutation is one transaction: it runs whole or, when its arguments fail  *)
(* their validator, not at all.                                            *)

\* v.string(), v.array(v.string()), v.record(v.string(), v.array(v.string()))
\* and v.union(v.string(), v.array(v.string()))
Conforms(type, v) ==
    LET strings(x) == x.t = "arr" /\ \A k \in 1..Len(x.a) : x.a[k].t = "str"
    IN  CASE type = "string" -> v.t = "str"
          [] type = "strings" -> strings(v)
          [] type = "skills" -> v.t = "obj" /\ \A k \in DOMAIN v.p : strings(v.p[k])
          [] type = "award" -> v.t = "str" \/ strings(v)

\* the args of each mutation: the fields with their validators, and the ones
\* that are not v.optional
Validators ==
    [ upsertHeader |->
        [ required |-> {"name", "email"},
          fields |-> [ name |-> "string", tagline |-> "string", email |-> "string",
                       website |-> "string", linkedin |-> "string", github |-> "string",
                       phone |-> "string", location |-> "string",
                       lastUpdated |-> "string", skills |-> "skills" ] ],
      upsertEducation |->
        [ required |-> {"university", "degree", "startDate", "endDate"},
          fields |-> [ university |-> "string", degree |-> "string", major |-> "string",
                       startDate |-> "string", endDate |-> "string", gpa |-> "string",
                       coursework |-> "strings" ] ],
      addExperience |->
        [ required |-> {"title", "startDate", "endDate"},
          fields |-> [ title |-> "string", position |-> "string", startDate |-> "string",
                       endDate |-> "string", url |-> "string", description |-> "string" ] ],
      addProject |->
        [ required |-> {"title", "date"},
          fields |-> [ title |-> "string", event |-> "string", award |-> "award",
                       organization |-> "string", date |-> "string", endDate |-> "string",
                       url |-> "string", description |-> "string" ] ],
      clearExperiences |-> [required |-> {}, fields |-> <<>>],
      clearProjects |-> [required |-> {}, fields |-> <<>>],
      clearAllData |-> [required |-> {}, fields |-> <<>>] ]

\* a call of a mutation; a field whose value is undefined is not sent
Call(name, args) ==
    [name |-> name, args |-> [f \in {g \in DOMAIN args : args[g] # JUndef} |-> args[f]]]

\* the arguments pass the validator: no field it does not name, every
\* required field, every value of its type
Accepts(call) ==
    LET validator == Validators[call.name]
    IN  /\ DOMAIN call.args \subseteq DOMAIN validator.fields
        /\ validator.required \subseteq DOMAIN call.args
        /\ \A f \in DOMAIN call.args : Conforms(validator.fields[f], call.args[f])

\* upsertHeader: the first header with that email is patched, else one is
\* inserted
upsertHeader(tables, args) ==
    LET same == {k \in 1..Len(tables.header) :
                    "email" \in DOMAIN tables.header[k]
                    /\ tables.header[k]["email"] = args["email"]}
    IN  IF same = {} THEN [tables EXCEPT !.header = Append(@, args)]
        ELSE [tables EXCEPT
                !.header[CHOOSE k \in same : \A j \in same : k <= j] = args @@ @]

upsertEducation_Insert(tables, args) == [tables EXCEPT !.education = Append(@, args)]

\* upsertEducation: every education document is deleted, then one inserted
upsertEducation(tables, args) == [tables EXCEPT !.education = <<args>>]

\* clearAllData: every document of the four tables is deleted
clearAllData(tables) == EmptyDb

\* clearExperiences and clearProjects, as importToDatabase's comments describe
\* them: "Clear existing experiences", "Clear existing projects"
clearExperiences(tables) == [tables EXCEPT !.experience = <<>>]
clearProjects(tables) == [tables EXCEPT !.projects = <<>>]

\* what a mutation that is run makes of the tables
runMutation(tables, call) ==
    CASE call.name = "upsertHeader" -> upsertHeader(tables, call.args)
      [] call.name = "upsertEducation" -> upsertEducation(tables, call.args)
      [] call.name = "addExperience" -> [tables EXCEPT !.experience = Append(@, call.args)]
      [] call.name = "addProject" -> [tables EXCEPT !.projects = Append(@, call.args)]
      [] call.name = "clearExperiences" -> clearExperiences(tables)
      [] call.name = "clearProjects" -> clearProjects(tables)
      [] call.name = "clearAllData" -> clearAllData(tables)

-----------------------------------------------------------------------------
(* resumeActions.importToDatabase and resumeFunctions.importResumeData: the *)
(* mutations each awaits, in order.  Reading a field of an entry that is   *)
(* null or undefined throws a TypeError where the call would be made.      *)

\* x || fallback
OrElse(x, fallback) == IF Truthy(x) THEN x ELSE fallback

\* Object.keys(v).length > 0
HasKeys(v) ==
    CASE v.t = "obj" -> DOMAIN v.p # {}
      [] v.t = "arr" -> v.a # <<>> \/ DOMAIN v.p # {}
      [] v.t = "str" -> v.s # <<>>
      [] OTHER -> FALSE

\* the entries a for...of loop over data[section] visits
Entries(data, section) ==
    LET list == Get(data, section) IN IF IsArray(list) THEN list.a ELSE <<>>

\* the statement that reads entry.<field> throws
TypeError == [name |-> "TypeError", args |-> <<>>]

\* a call made from the fields of an entry
FromEntry(entry, call) == IF entry.t \in {"null", "undef"} THEN TypeError ELSE call

\* the fields importToDatabase sends, each as  entry.<field> || ""
OrEmpty(entry, fields) == [f \in fields |-> OrElse(Get(entry, f), EmptyStr)]

importToDatabase(data) ==
    LET header == Get(data, "header")
        education == Get(data, "education")
        experience == Entries(data, "experience")
        projects == Entries(data, "projects")
    IN  (IF Truthy(header)
         THEN <<Call("upsertHeader",
                     [skills |-> OrElse(Get(header, "skills"), EmptyObj)]
                     @@ OrEmpty(header, {"email", "github", "lastUpdated", "linkedin",
                                         "location", "name", "phone", "tagline",
                                         "website"}))>>
         ELSE <<>>)
        \o (IF Truthy(education) /\ HasKeys(education)
            THEN <<Call("upsertEducation",
                        [coursework |-> OrElse(Get(education, "coursework"), EmptyArr)]
                        @@ OrEmpty(education, {"degree", "endDate", "gpa", "major",
                                               "startDate", "university"}))>>
            ELSE <<>>)
        \o <<Call("clearExperiences", <<>>)>>
        \o [k \in 1..Len(experience) |->
              FromEntry(experience[k],
                  Call("addExperience",
                       OrEmpty(experience[k],
                               {"description", "endDate", "position", "location",
                                "employmentType", "startDate", "title", "url"})))]
        \o <<Call("clearProjects", <<>>)>>
        \o [k \in 1..Len(projects) |->
              FromEntry(projects[k],
                  Call("addProject",
                       OrEmpty(projects[k],
                               {"award", "date", "description", "endDate", "event",
                                "organization", "title", "url"})))]

\* the fields importResumeData sends as they are, and as  entry.<field> || undefined
AsIs(entry, fields) == [f \in fields |-> Get(entry, f)]
OrUndefined(entry, fields) == [f \in fields |-> OrElse(Get(entry, f), JUndef)]

\* (entry.highlights || []).join(<bullet>) || undefined, for highlights that
\* are a list of strings; the bullet between two spaces is written "*"
Description(entry) ==
    LET highlights == OrElse(Get(entry, "highlights"), EmptyArr)
        joined[k \in 0..Len(highlights.a)] ==
            IF k = 0 THEN <<>>
            ELSE joined[k - 1] \o (IF k = 1 THEN <<>> ELSE <<" ", "*", " ">>)
                               \o highlights.a[k].s
    IN  OrElse(JStr(joined[Len(highlights.a)]), JUndef)

Award_Kept(proj) == OrElse(Get(proj, "award"), JUndef)

\* awardArray: a truthy award that is no array becomes a one-element array
Award(proj) ==
    LET award == Get(proj, "award")
    IN  IF ~Truthy(award) THEN JUndef
        ELSE IF IsArray(award) THEN award ELSE JArr(<<award>>)

importResumeData(data) ==
    LET header == Get(data, "header")
        education == Get(data, "education")
        experience == Entries(data, "experience")
        projects == Entries(data, "projects")
    IN  <<Call("clearAllData", <<>>)>>
        \o (IF Truthy(header)
            THEN <<Call("upsertHeader",
                        AsIs(header, {"name", "email"})
                        @@ OrUndefined(header, {"tagline", "website", "linkedin",
                                                "github", "phone", "location",
                                                "lastUpdated", "skills"}))>>
            ELSE <<>>)
        \o (IF Truthy(education)
            THEN <<Call("upsertEducation",
                        AsIs(education, {"university", "degree", "major",
                                         "startDate", "endDate"})
                        @@ OrUndefined(education, {"gpa", "coursework"}))>>
            ELSE <<>>)
        \o [k \in 1..Len(experience) |->
              FromEntry(experience[k],
                  Call("addExperience",
                       [description |-> Description(experience[k])]
                       @@ AsIs(experience[k], {"title", "position", "startDate",
                                               "endDate"})
                       @@ OrUndefined(experience[k], {"url"})))]
        \o [k \in 1..Len(projects) |->
              FromEntry(projects[k],
                  Call("addProject",
                       [award |-> Award(projects[k]),
                        description |-> Description(projects[k])]
                       @@ AsIs(projects[k], {"title", "date"})
                       @@ OrUndefined(projects[k], {"event", "organization",
                                                    "endDate", "url"})))]

-----------------------------------------------------------------------------
(* The calls a deployment serves.  Each call of an action or of a mutation *)
(* is a process: uploadAndParseResume suspends on the extractor, on        *)
(* messages.create and on every ctx.runMutation; importResumeData on every *)
(* ctx.runMutation; a mutation called by a client is one transaction.      *)

\* error.message of what the calls throw; a message is the sequence of its
\* pieces, the fixed text of the template first
Message(error) ==
    LET kind == error.kind
    IN  CASE kind = "ApiKeyMissing" ->
                <<"Anthropic API key not configured in environment">>
          [] kind = "UnsupportedFormat" ->
                <<"Unsupported file type: ">> \o error.detail
                \o <<". Only PDF and DOCX files are supported.">>
          [] kind = "ExtractionFailed" ->
                <<CASE error.cause = "parserError" -> "PDF parsing error: "
                    [] error.cause = "URIError" -> "Error extracting text from PDF: "
                    [] OTHER -> "Error extracting text from DOCX: ">>
          [] kind = "InsufficientText" ->
                <<"Could not extract sufficient text from the resume file">>
          [] kind = "ModelCallFailed" -> <<"Error calling Anthropic API: ">>
          [] kind = "ArgumentValidationError" -> <<"ArgumentValidationError: ">>
          [] OTHER -> <<"TypeError: Cannot read properties of ">>

\* what a call has answered its caller: nothing yet, a value, an exception
NoOutcome == [status |-> "pending", success |-> FALSE, error |-> <<>>, data |-> JUndef]
Succeeded(data) == [status |-> "returned", success |-> TRUE, error |-> <<>>, data |-> data]
Thrown(error) ==
    [status |-> "raised", success |-> FALSE, error |-> Message(error), data |-> JUndef]

Caught_Rethrown(error) == Thrown(error)

\* the catch of uploadAndParseResume:
\*   return { success: false, error: error.message, data: null }
Caught(error) ==
    [status |-> "returned", success |-> FALSE, error |-> Message(error), data |-> JNull]

\* a call that has not started; before is the stored resume when it starts
New(inv) ==
    [ inv |-> inv, at |-> "start", extracted |-> Extracted(<<>>), parsed |-> Pending,
      requests |-> <<>>, todo |-> <<>>, before |-> EmptyDb, outcome |-> NoOutcome ]

\* the call is over with this outcome
Over(p, outcome) == [p EXCEPT !.at = "over", !.outcome = outcome]

\* uploadAndParseResume up to the first suspension: the key is read, the
\* parser is made, parseResume and extractText run up to the extractor
Started(p, tables) ==
    LET q == [p EXCEPT !.before = tables]
    IN  IF ~q.inv.key THEN Over(q, Caught(Error("ApiKeyMissing", <<>>, "none")))
        ELSE IF Route(q.inv.fileType) = "none"
        THEN Over([q EXCEPT !.parsed = Failed(UnsupportedFormat(q.inv.fileType))],
                  Caught(UnsupportedFormat(q.inv.fileType)))
        ELSE [q EXCEPT !.at = "extracting"]

\* the extractor settles
Extracting(p) ==
    [p EXCEPT !.at = "extracted",
              !.extracted = IF Route(p.inv.fileType) = "pdf"
                            THEN extractTextFromPDF(p.inv.buffer)
                            ELSE extractTextFromDocx(p.inv.buffer)]

Awaited_Latest(all, i) ==
    LET settled == {k \in DOMAIN all : all[k].at # "start" /\ all[k].at # "extracting"}
    IN  all[CHOOSE k \in settled : \A j \in settled : k >= j].extracted

\* const resumeText = await this.extractText(buffer, fileType): what the
\* i-th call resumes with is what its own extractor settled with
Awaited(all, i) == all[i].extracted

\* parseResume from the extractor's settling to messages.create
Resumed(p, extracted) ==
    IF ~extracted.ok
    THEN Over([p EXCEPT !.parsed = Failed(extracted.error)], Caught(extracted.error))
    ELSE IF InsufficientText(extracted.text)
    THEN Over([p EXCEPT !.parsed = Failed(Error("InsufficientText", <<>>, "none"))],
              Caught(Error("InsufficientText", <<>>, "none")))
    ELSE [p EXCEPT !.at = "awaitingModel", !.requests = Send(@, extracted.text)]

\* parseWithAnthropic and parseResume run to their end with parsed; the
\* record goes to importToDatabase
Replied(p, parsed) ==
    IF parsed.status = "failed"
    THEN Over([p EXCEPT !.parsed = parsed], Caught(parsed.error))
    ELSE [p EXCEPT !.parsed = parsed, !.at = "importing",
                   !.todo = importToDatabase(parsed.v)]

\* importResumeData, or a mutation called by a client, starts
Invoked(p, tables) ==
    [p EXCEPT !.before = tables, !.at = "importing",
              !.todo = IF p.inv.op = "importResumeData"
                       THEN importResumeData(p.inv.data)
                       ELSE <<Call(p.inv.op, p.inv.args)>>]

\* the exception that ends a call at its next ctx.runMutation
Rejection(call) ==
    IF call.name = "TypeError" THEN Error("TypeError", <<>>, "none")
    ELSE Error("ArgumentValidationError", <<>>, call.name)

\* the call after its next ctx.runMutation: the mutation ran, or the
\* exception ends the call (uploadAndParseResume catches it)
Awaiting(p, call) ==
    IF call.name # "TypeError" /\ Accepts(call) THEN [p EXCEPT !.todo = Tail(@)]
    ELSE IF p.inv.op = "uploadAndParseResume" THEN Over(p, Caught(Rejection(call)))
    ELSE Over(p, Thrown(Rejection(call)))

\* the call returns once all its mutations have run
Returning(p) ==
    Over(p, Succeeded(IF p.inv.op = "uploadAndParseResume" THEN p.parsed.v ELSE JUndef))

-----------------------------------------------------------------------------
(* The calls and the stored resumes the deployment is checked with. *)

\* the calls served at once
MaxCalls == 2

\* a resume stored by earlier calls
StoredResume ==
    [ header |-> << [name |-> JStr(<<"O", "l", "d">>), email |-> JStr(<<"a", "@", "x", ".", "c", "o", "m">>)] >>,
      education |-> << [university |-> JStr(<<"O", "l", "d">>), degree |-> JStr(<<"B", "S">>),
                        startDate |-> JStr(<<"2", "0", "2", "0">>), endDate |-> JStr(<<"2", "0", "2", "4">>)] >>,
      experience |-> << [title |-> JStr(<<"O", "l", "d">>), startDate |-> JStr(<<"2", "0", "2", "0">>),
                         endDate |-> JStr(<<"2", "0", "2", "4">>)] >>,
      projects |-> << [title |-> JStr(<<"O", "l", "d">>), date |-> JStr(<<"2", "0", "2", "0">>)] >> ]

\* a DOCX of 50 letters and a PDF of one run of 50 letters
GoodDocx == DocxFile(Fill("x", MinTextLength))
GoodPdf == PdfFile(<< << <<Fill("y", MinTextLength)>> >> >>)

\* uploadAndParseResume({file, fileType}), with the environment's key, the
\* model's answer and the clock the call will meet
Upload(key, type, buf, text) ==
    [ op |-> "uploadAndParseResume", key |-> key, fileType |-> type, buffer |-> buf,
      reply |-> text, now |-> [month |-> 0, year |-> BaseYear] ]

\* uploads: without a key; of an unsupported type; of bytes that are no DOCX;
\* of too little text; with a failed model call; of a resume with an
\* experience entry; of resumes with one project each, the award a string
\*   {"header":{"email":"a@x.com"},"projects":[{"title":"P","award":"Gold"}]}
\* and a list
\*   {"projects":[{"title":"Q","award":["A","B"]}]}
Uploads ==
    LET docx == <<"d", "o", "c", "x">>
        scenario == Text(ScenarioJSON)
    IN  { Upload(FALSE, docx, GoodDocx, scenario),
          Upload(TRUE, <<"t", "x", "t">>, OtherFile, scenario),
          Upload(TRUE, docx, OtherFile, scenario),
          Upload(TRUE, docx, DocxFile(Fill("x", MinTextLength - 1) \o <<" ">>), scenario),
          Upload(TRUE, docx, GoodDocx, [kind |-> "failure", text |-> <<>>]),
          Upload(TRUE, docx, GoodDocx, scenario),
          Upload(TRUE, docx, GoodDocx,
                 Text(<<"{", "\"", "h", "e", "a", "d", "e", "r", "\"", ":", "{",
                      "\"", "e", "m", "a", "i", "l", "\"", ":", "\"", "a",
                      "@", "x", ".", "c", "o", "m", "\"", "}", ",", "\"", "p",
                      "r", "o", "j", "e", "c", "t", "s", "\"", ":", "[", "{",
                      "\"", "t", "i", "t", "l", "e", "\"", ":", "\"", "P",
                      "\"", ",", "\"", "a", "w", "a", "r", "d", "\"", ":",
                      "\"", "G", "o", "l", "d", "\"", "}", "]", "}">>)),
          Upload(TRUE, <<"p", "d", "f">>, GoodPdf,
                 Text(<<"{", "\"", "p", "r", "o", "j", "e", "c", "t", "s", "\"",
                      ":", "[", "{", "\"", "t", "i", "t", "l", "e", "\"", ":",
                      "\"", "Q", "\"", ",", "\"", "a", "w", "a", "r", "d",
                      "\"", ":", "[", "\"", "A", "\"", ",", "\"", "B", "\"",
                      "]", "}", "]", "}">>)) }

\* importResumeData({data}): a whole resume, its project New with the award
\* Gold; an education without a degree; a project Two whose award is a list
Imports ==
    { [ op |-> "importResumeData",
        data |-> JObj([ header |-> JObj([name |-> JStr(<<"N", "e", "w">>), email |-> JStr(<<"a", "@", "x", ".", "c", "o", "m">>)]),
                        education |-> JObj([university |-> JStr(<<"N", "e", "w">>), degree |-> JStr(<<"B", "S">>),
                                            major |-> JStr(<<"C", "S">>), startDate |-> JStr(<<"2", "0", "2", "0">>),
                                            endDate |-> JStr(<<"2", "0", "2", "4">>)]),
                        experience |-> JArr(<< JObj([title |-> JStr(<<"N", "e", "w">>), position |-> JStr(<<"C", "S">>),
                                                     startDate |-> JStr(<<"2", "0", "2", "0">>), endDate |-> JStr(<<"2", "0", "2", "4">>),
                                                     highlights |-> JArr(<<JStr(<<"C", "S">>), JStr(<<"B", "S">>)>>)]) >>),
                        projects |-> JArr(<< JObj([title |-> JStr(<<"N", "e", "w">>), date |-> JStr(<<"2", "0", "2", "4">>),
                                                   award |-> JStr(<<"G", "o", "l", "d">>)]) >>) ]) ],
      [ op |-> "importResumeData",
        data |-> JObj([education |-> JObj([university |-> JStr(<<"N", "e", "w">>)])]) ],
      [ op |-> "importResumeData",
        data |-> JObj([projects |-> JArr(<< JObj([title |-> JStr(<<"T", "w", "o">>), date |-> JStr(<<"2", "0", "2", "4">>),
                                                   award |-> JArr(<<JStr(<<"C", "S">>), JStr(<<"B", "S">>)>>)]) >>)]) ] }

\* mutations a client calls: upsertEducation twice, clearAllData
Mutations ==
    { [ op |-> "upsertEducation",
        args |-> [university |-> JStr(<<"N", "e", "w">>), degree |-> JStr(<<"B", "S">>), startDate |-> JStr(<<"2", "0", "2", "0">>),
                  endDate |-> JStr(<<"2", "0", "2", "4">>)] ],
      [ op |-> "upsertEducation",
        args |-> [university |-> JStr(<<"O", "l", "d">>), degree |-> JStr(<<"C", "S">>), startDate |-> JStr(<<"2", "0", "2", "4">>),
                  endDate |-> JStr(<<"2", "0", "2", "4">>), coursework |-> JArr(<<JStr(<<"C", "S">>)>>)] ],
      [ op |-> "clearAllData", args |-> <<>> ] }

Invocations == Uploads \cup Imports \cup Mutations

-----------------------------------------------------------------------------
(* The deployment as a state machine: each step is what one call runs      *)
(* between two suspensions, or one transaction.                            *)

StoreInit ==
    /\ procs \in [1..MaxCalls -> {New(inv) : inv \in Invocations}]
    /\ db \in {EmptyDb, StoredResume}
    /\ NoCall
    /\ candidate = JUndef
    /\ now = NoClock
    /\ now2 = NoClock
    /\ pc = "serving"
    /\ out = Raised
    /\ out2 = Raised

\* the i-th call goes on as p; the tables stay
Local(i, p) == procs' = [procs EXCEPT ![i] = p] /\ db' = db

\* uploadAndParseResume is called
StartUpload(i) ==
    /\ procs[i].at = "start"
    /\ procs[i].inv.op = "uploadAndParseResume"
    /\ Local(i, Started(procs[i], db))

\* pdf2json or mammoth settles
ExtractorSettles(i) ==
    /\ procs[i].at = "extracting"
    /\ Local(i, Extracting(procs[i]))

\* parseResume resumes after the extractor
Resume(i) ==
    /\ procs[i].at = "extracted"
    /\ Local(i, Resumed(procs[i], Awaited(procs, i)))

\* messages.create settles
ModelSettles(i) ==
    /\ procs[i].at = "awaitingModel"
    /\ Local(i, Replied(procs[i], AfterReply(procs[i].inv.reply, procs[i].inv.now).result))

\* importResumeData or a mutation is called
Invoke(i) ==
    /\ procs[i].at = "start"
    /\ procs[i].inv.op # "uploadAndParseResume"
    /\ Local(i, Invoked(procs[i], db))

\* ctx.runMutation: the transaction commits, or the call is rejected
RunMutation(i) ==
    /\ procs[i].at = "importing"
    /\ procs[i].todo # <<>>
    /\ LET call == Head(procs[i].todo)
           p == Awaiting(procs[i], call)
       IN  /\ procs' = [procs EXCEPT ![i] = p]
           /\ db' = IF p.at = "over" THEN db ELSE runMutation(db, call)

\* the action, or the mutation, returns
Return(i) ==
    /\ procs[i].at = "importing"
    /\ procs[i].todo = <<>>
    /\ Local(i, Returning(procs[i]))

StoreNext ==
    \E i \in 1..MaxCalls :
        /\ \/ StartUpload(i)
           \/ ExtractorSettles(i)
           \/ Resume(i)
           \/ ModelSettles(i)
           \/ Invoke(i)
           \/ RunMutation(i)
           \/ Return(i)
        /\ UNCHANGED <<normVars, callVars>>

SpecStore == StoreInit /\ [][StoreNext]_vars

-----------------------------------------------------------------------------
(* Claims about the calls a deployment serves at once. *)

\* parseResume run alone: what it settles with for these bytes, this declared
\* type and this answer of the model
parseResume(type, buf, answer, clock) ==
    LET extracted == IF Route(type) = "pdf" THEN extractTextFromPDF(buf)
                     ELSE extractTextFromDocx(buf)
    IN  IF Route(type) = "none" THEN Failed(UnsupportedFormat(type))
        ELSE IF ~extracted.ok THEN Failed(extracted.error)
        ELSE IF InsufficientText(extracted.text)
        THEN Failed(Error("InsufficientText", <<>>, "none"))
        ELSE AfterReply(answer, clock).result

\* the i-th call is an upload
IsUpload(i) == procs[i].inv.op = "uploadAndParseResume"

\* C21: under every interleaving of the calls, the record or the error a
\* parseResume call settles with is the one it settles with when run alone
\* on the same bytes, declared type and model answer
C21_CallsShareNothing ==
    \A i \in DOMAIN procs :
        IsUpload(i) /\ procs[i].parsed # Pending =>
            procs[i].parsed = parseResume(procs[i].inv.fileType, procs[i].inv.buffer,
                                          procs[i].inv.reply, procs[i].inv.now)

\* C21 happens: two parseResume calls overlapped, on different documents; the
\* first returned a record while the second failed for want of text
C21_Witness ==
    /\ IsUpload(1) /\ IsUpload(2)
    /\ procs[1].parsed.status = "returned"
    /\ procs[1].at = "importing"
    /\ procs[1].before = StoredResume
    /\ procs[2].parsed.error.kind = "InsufficientText"
    /\ procs[2].before = StoredResume

\* the project entries the i-th call imports: those of the record parsed,
\* or of the data handed to importResumeData
Projects(i) ==
    IF IsUpload(i)
    THEN (IF procs[i].parsed.status = "returned"
          THEN Entries(procs[i].parsed.v, "projects") ELSE <<>>)
    ELSE IF procs[i].inv.op = "importResumeData"
    THEN Entries(procs[i].inv.data, "projects")
    ELSE <<>>

\* the stored projects with the title of the entry
StoredAs(entry) ==
    {doc \in Range(db.projects) : doc["title"] = Get(entry, "title")}

\* the award of the entry is a string that is not empty
SingleAward(entry) == Get(entry, "award").t = "str" /\ Truthy(Get(entry, "award"))

\* C25 as stated: on both import paths a project whose award is a single
\* string is stored with a string award, and one whose award is a list with
\* a list
C25_AwardKeptOnBothPaths ==
    \A i \in DOMAIN procs : \A k \in DOMAIN Projects(i) :
        \A doc \in StoredAs(Projects(i)[k]) :
            /\ SingleAward(Projects(i)[k]) => doc["award"].t = "str"
            /\ IsArray(Get(Projects(i)[k], "award")) => doc["award"].t = "arr"

\* C25 amended: importToDatabase stores the award as it is, string or list;
\* importResumeData stores a list as it is and a single string as the list
\* of that one string
C25_AwardKeptOrWrapped ==
    \A i \in DOMAIN procs : \A k \in DOMAIN Projects(i) :
        \A doc \in StoredAs(Projects(i)[k]) :
            LET award == Get(Projects(i)[k], "award")
            IN  /\ IsArray(award) => doc["award"] = award
                /\ SingleAward(Projects(i)[k]) =>
                      doc["award"] = IF IsUpload(i) THEN award ELSE JArr(<<award>>)

\* C25 happens: an upload stored the project P with the award Gold, and
\* importResumeData the project New with the award Gold
C25_Witness ==
    /\ \E doc \in Range(db.projects) :
          doc["title"] = JStr(<<"P">>) /\ doc["award"] = JStr(<<"G", "o", "l", "d">>)
    /\ \E doc \in Range(db.projects) :
          /\ doc["title"] = JStr(<<"N", "e", "w">>)
          /\ doc["award"] = JArr(<<JStr(<<"G", "o", "l", "d">>)>>)
    /\ \E i \in DOMAIN procs : IsUpload(i) /\ procs[i].outcome.success
    /\ \E i \in DOMAIN procs : ~IsUpload(i) /\ procs[i].outcome.success

\* C27: uploadAndParseResume never raises; a call that is over has returned,
\* either success = false with a message that is not empty and data = null,
\* or success = true with the record parsed, after parseResume returned and
\* every mutation of the import ran
C27_UploadNeverRaises ==
    \A i \in DOMAIN procs :
        IsUpload(i) =>
            /\ procs[i].outcome.status # "raised"
            /\ procs[i].at = "over" =>
                  /\ procs[i].outcome.status = "returned"
                  /\ ~procs[i].outcome.success =>
                        /\ procs[i].outcome.error # <<>>
                        /\ procs[i].outcome.error[1] # ""
                        /\ procs[i].outcome.data = JNull
                  /\ procs[i].outcome.success =>
                        /\ procs[i].parsed.status = "returned"
                        /\ procs[i].outcome.data = procs[i].parsed.v
                        /\ procs[i].todo = <<>>

\* C27 happens: one upload ended on a mutation the database rejected, and
\* another returned success
C27_Witness ==
    /\ IsUpload(1) /\ IsUpload(2)
    /\ procs[1].at = "over"
    /\ ~procs[1].outcome.success
    /\ procs[1].outcome.error = <<"ArgumentValidationError: ">>
    /\ procs[2].outcome.success

\* no call but the i-th has started
Alone(i) == \A j \in DOMAIN procs : j # i => procs[j].at = "start"

\* C28: when an upload that ran alone has returned success = false, the four
\* tables hold what they held when it was called
C28_FailedUploadLeavesStore ==
    \A i \in DOMAIN procs :
        IsUpload(i) /\ Alone(i) /\ procs[i].at = "over" /\ ~procs[i].outcome.success =>
            db = procs[i].before

\* the documents the import of the i-th upload adds with the mutation
Adds(i, mutation) ==
    LET added(call) == call.name = mutation
        calls == SelectSeq(importToDatabase(procs[i].parsed.v), added)
    IN  [k \in 1..Len(calls) |-> calls[k].args]

\* C29: once two uploads that both succeed are over, the experience table
\* holds the entries of one of the two parsed records, and so does the
\* projects table
C29_TablesHoldOneRecord ==
    (\A i \in DOMAIN procs :
        IsUpload(i) /\ procs[i].at = "over" /\ procs[i].outcome.success) =>
        /\ \E i \in DOMAIN procs : db.experience = Adds(i, "addExperience")
        /\ \E i \in DOMAIN procs : db.projects = Adds(i, "addProject")

\* this step commits the upsertEducation the i-th call was about to run
Upserts(i) ==
    /\ procs[i].at = "importing"
    /\ procs[i].todo # <<>>
    /\ Head(procs[i].todo).name = "upsertEducation"
    /\ procs'[i].at = "importing"
    /\ procs'[i].todo = Tail(procs[i].todo)

\* C30: the education table never holds more than one record, and right
\* after an upsertEducation it holds one record, the arguments of that call
C30_OneEducationRecord ==
    /\ [](Len(db.education) <= 1)
    /\ [][\A i \in DOMAIN procs :
            Upserts(i) => db'.education = <<Head(procs[i].todo).args>>]_vars

\* C30 happens: a client's upsertEducation replaced the stored education
\* after importResumeData had run to its end
C30_Witness ==
    /\ \E i \in DOMAIN procs :
          /\ procs[i].inv.op = "upsertEducation"
          /\ procs[i].at = "over"
          /\ procs[i].before.education # <<>>
          /\ db.education = <<procs[i].inv.args>>
          /\ db.education # procs[i].before.education
    /\ \E i \in DOMAIN procs :
          procs[i].inv.op = "importResumeData" /\ procs[i].outcome.success

=============================================================================
